---- MODULE Spec2Model ----
(***************************************************************************)
(* A state-machine model of the my-react reconciler.                       *)
(*                                                                         *)
(* The module holds several specifications over disjoint groups of         *)
(* variables; a specification leaves the other groups at their initial     *)
(* value.                                                                  *)
(*   SpecQueue : one function component with one state hook, its update    *)
(*               queue, the lanes of its two fibers and of the root, and   *)
(*               render passes at the lane getNextLane selects.            *)
(*   SpecEager : SpecQueue with one more call of setState.                 *)
(*   SpecSched, SpecTransition : the root, the work loop, the scheduler    *)
(*               and the host tree.                                        *)
(*   SpecSchedFair : SpecSched with the fairness of the host.              *)
(*   SpecList  : the reconciliation of a list of keyed children.           *)
(*   SpecEffect: the passive effects of two function components.           *)
(*   SpecHooks : the chain of hooks of one function component.             *)
(*   SpecClone : cloneChildFibers on a fiber that bails out.               *)
(*   SpecTree  : render passes and commits of a tree of four fibers.       *)
(*   SpecSuspense : a Suspense boundary around a component that reads a    *)
(*               thenable.                                                 *)
(*   SpecRef   : the refs of the elements of one host child.               *)
(*   SpecUnwind: the path from the root to the fiber that throws, and the  *)
(*               stacks of suspense handlers and of provider values.       *)
(*                                                                         *)
(* A set of lanes (a bit mask in the source) is a set of bit values.       *)
(***************************************************************************)
EXTENDS Integers, Sequences, FiniteSets, TLC

\* ------------------------------------------------------------------------
\* State.  SpecQueue: a function component X that calls useState once, below
\* a root.
\* ------------------------------------------------------------------------
VARIABLES
    queue,        \* FCUpdateQueue of the hook: shared.pending, lastRenderedState
    currentHook,  \* the Hook of X's current fiber: memoizedState, baseState, baseQueue
    wipHook,      \* the Hook of X's work-in-progress fiber
    fiberLanes,   \* lanes of X's current fiber and of its alternate
    root,         \* FiberRootNode: pendingLanes, suspendedLanes, pingedLanes
    wipRoot,      \* wipRootRenderLane and how far the pass in progress has come
    pingCache,    \* lanes for which a ping listener waits on a thenable
    thenableThrown, \* the one component that reads a promise has thrown it
    mountState,   \* the initial state handed to useState          (history)
    updateLog,    \* the setState calls in the order they were made (history)
    commitLog,    \* the lanes of the committed passes, in order    (history)
    passRec,      \* what the last pass handed to and got from processUpdateQueue (history)
    noEager,      \* queue, hooks and fiber lanes of X had every call of
                  \* setState enqueued its update at its lane without an
                  \* eager state, under the same passes          (history)
    renderStarted \* a render pass has been started                 (history)

qvars == <<queue, currentHook, wipHook, fiberLanes, root, wipRoot, pingCache,
           thenableThrown, mountState, updateLog, commitLog, passRec, noEager,
           renderStarted>>

\* SpecSched: the root, the work loop, the scheduler and the host tree.
VARIABLES
    fiberRootNode,     \* FiberRootNode: lanes, callbackNode, callbackPriority,
                       \* current, finishedWork, finishedLane,
                       \* pendingPassiveEffects, pingCache
    workInProgress,    \* the fiber the work loop is at: "HostRoot", "App" or "null"
    wipRootRenderLane,
    workInProgressRootExitStatus,
    wipFlags,          \* effect flags the pass has put on the work-in-progress tree
    rootDoesHasPassiveEffects,
    syncQueue,         \* number of callbacks in syncQueue (all performSyncWorkOnRoot)
    isFlushingSyncQueue,
    microTasks,        \* number of queued flushSyncCallbacks microtasks
    taskQueue,         \* the callbacks held by the scheduler
    stack,             \* call stack: frames of the functions that are running
    hostTree,          \* per host fiber: the tree whose commit last wrote its
                       \* instance in the container, or "none" when not attached
    setStateCalls,     \* number of setState calls made
    thrown,            \* App has thrown its thenable
    syncCallbackCalls, \* per callback of syncQueue, the number of times it has
                       \* been invoked, counted up to 2             (history)
    unitsBegun,        \* the fibers beginWork has run on since renderRoot
                       \* last found another lane in wipRootRenderLane,
                       \* and, while the pass is in progress, "yield"
                       \* where the work loop has yielded          (history)
    batch              \* the sync updates of the current event       (history)

svars == <<fiberRootNode, workInProgress, wipRootRenderLane,
           workInProgressRootExitStatus, wipFlags, rootDoesHasPassiveEffects,
           syncQueue, isFlushingSyncQueue, microTasks, taskQueue, stack,
           hostTree, setStateCalls, thrown, syncCallbackCalls, unitsBegun,
           batch>>

\* SpecList: the children of one host parent.
VARIABLES
    currentFirstChild, \* the committed child chain of the host parent: key, type, index
    newChild,          \* the array of elements of the last reconciliation (history)
    firstNewFiber,     \* the chain reconcileChildrenArray built: key, type, index,
                       \* alternate (position in currentFirstChild, 0 for null), placement
    deletions,         \* the deletions of the parent's work-in-progress fiber
    reconciled,        \* the chain is built and not yet committed
    container          \* the children of the host parent's instance, in order

lvars == <<currentFirstChild, newChild, firstNewFiber, deletions, reconciled,
           container>>

\* SpecEffect: the effect hooks of two function components.
VARIABLES
    effects,           \* the Effect objects by identity: comp, hasEffect (the tag
                       \* has HookHasEffect), destroy, deps
    memoizedEffect,    \* per component: the Effect of the hook of its current
                       \* fiber, 0 when it is not mounted
    pendingPassiveEffects, \* root.pendingPassiveEffects: unmount and update
    flushLog,          \* the callbacks the last flush invoked, in order (history)
    live,              \* per component: the destroy returned by the last create
                       \* of its hook and not yet invoked, 0 for none     (history)
    skipped,           \* components whose hook ran a create while the destroy of
                       \* its previous create had not been invoked        (history)
    passes             \* number of render passes

evars == <<effects, memoizedEffect, pendingPassiveEffects, flushLog, live,
           skipped, passes>>

\* SpecHooks: the hook list of one function component.
VARIABLES
    hookChain,         \* the Hook list of the current fiber (its memoizedState):
                       \* the memoizedState of each Hook, in order
    wipHookChain,      \* the Hook list of the work-in-progress fiber
    hookCursor,        \* currentHook: a position in hookChain, 0 for null
    workInProgressHookSet, \* workInProgressHook is not null
    hookCalls,         \* number of hook calls the render of the component makes
    hookCallsMade,     \* number of hook calls the render has made
    hookRender,        \* "idle", "rendering", "threw" (an Error is in flight),
                       \* "committed", "failed" (the Error left renderRoot)
    prevHookCount      \* number of Hooks of the render before         (history)

hvars == <<hookChain, wipHookChain, hookCursor, workInProgressHookSet,
           hookCalls, hookCallsMade, hookRender, prevHookCount>>

\* SpecClone: the children of one fiber that bails out.
VARIABLES
    fibers,            \* the FiberNode objects, by identity
    cloneCurrentChild, \* currentChild of cloneChildFibers
    cloneNewChild,     \* newChild of cloneChildFibers
    clonePc,           \* "start", "loop", "done": position in cloneChildFibers
    childList,         \* the children of the current fiber, in order,
                       \* when the pass began                       (history)
    currentAtStart     \* fibers when the pass began                 (history)

cvars == <<fibers, cloneCurrentChild, cloneNewChild, clonePc, childList,
           currentAtStart>>

\* SpecTree: the render passes and the commits of one tree; its fibers
\* are in the variable fibers.
VARIABLES
    treeRoot,          \* the FiberRootNode: current, pendingLanes
    treeWorkInProgress,\* workInProgress
    treePhase,         \* "idle", "render", "finished" (finishedWork is set)
    appQueue,          \* the update queue of the state hook of App
    rootQueue,         \* updateQueue.shared.pending of the HostRoot
    firstBailedOut,    \* the first fiber of the pass that bailed out  (history)
    passIdentical,     \* the pass has met no new element and no new
                       \* state                                      (history)
    lastCommit         \* of the last commit: was its pass identical, and
                       \* the number of host mutations it issued     (history)

tvars == <<treeRoot, treeWorkInProgress, treePhase, appQueue, rootQueue,
           firstBailedOut, passIdentical, lastCommit>>

\* the variables of the specifications that follow SpecEffect
\* SpecSuspense: a Suspense boundary around a component that reads a
\* thenable with use.  The fibers are in the variable fibers.
VARIABLES
    suspenseRoot,        \* FiberRootNode: current, pendingLanes, suspendedLanes,
                         \* pingedLanes, pingCache (the lanes of the thenable)
    suspenseWorkInProgress, \* workInProgress
    suspensePhase,       \* "idle", "render", "thrown" (between the catch of
                         \* renderRoot and throwAndUnwindWorkLoop), "finished"
    suspenseRenderLane,  \* wipRootRenderLane
    suspenseHandlerStack,\* suspenseContext.ts
    fiberDeletions,      \* the field deletions of every fiber
    containerQueue,      \* the element in the update queue of the HostRoot, or Null
    elementsMade,        \* number of calls of root.render
    containerLane,          \* the lane requestUpdateLane gives to the calls of render
    thenable,            \* the promise: settled, status, and the lanes whose
                         \* ping waits on it
    hostView,            \* the host nodes in the container
    componentCalls,      \* number of calls of the component      (history)
    resolvedLog          \* the thenable has resolved while the fallback was
                         \* in the container (waited), its ping has run
                         \* (pinged), and since then render has been called
                         \* (external), the component has been called
                         \* (invoked)                             (history)

uvars == <<suspenseRoot, suspenseWorkInProgress, suspensePhase,
           suspenseRenderLane, suspenseHandlerStack, fiberDeletions,
           containerQueue,
           elementsMade, containerLane, thenable, hostView, componentCalls,
           resolvedLog>>

\* SpecUnwind: the path from the HostRoot to the fiber the work loop is at.
VARIABLES
    unwindPath,    \* the fibers that are begun and not completed, the
                   \* HostRoot first, workInProgress last: tag, flags,
                   \* whether a Suspense shows its fallback, whether a child
                   \* has been begun
    handlerStack,  \* suspenseHandlerStack of suspenseContext.ts: the depths
                   \* of the fibers on it
    unwindPhase,   \* "render", "thrown" (between the catch of renderRoot and
                   \* throwAndUnwindWorkLoop), "capture" (workInProgress is
                   \* the boundary that captured), "threwError" (after
                   \* handleThrow of a value that is not the
                   \* SuspenseException), "completed", "didNotComplete",
                   \* "idle"
    hasCurrent,    \* a pass has been committed: the fibers have a current
    errorReruns,   \* how often the pass has run a unit of work again after
                   \* the unit threw an error                     (history)
    providerStack  \* the stack of provider values of one context
                   \* (fiberContext.ts)

wvars == <<unwindPath, handlerStack, unwindPhase, hasCurrent, errorReruns,
           providerStack>>

\* SpecRef: one host child and the refs of its elements.
VARIABLES
    hostFiber,     \* the current fiber of the host child: type, ref,
                   \* stateNode (0 before the mount), and the ref of the
                   \* element it was rendered from              (history)
    finishedHost,  \* its fiber in the finished tree, with its flags and
                   \* whether the pass deletes the current fiber
    prevHostFiber, \* the current fiber before the last commit  (history)
    refCurrent,    \* the field current of each ref object: a host instance
                   \* or 0 for null
    refPhase,      \* "idle", "mutation", "layout"
    refLog,        \* the refs the commit has detached and attached, in
                   \* order                                      (history)
    refRenders     \* number of render passes

rvars == <<hostFiber, finishedHost, prevHostFiber, refCurrent, refPhase,
           refLog, refRenders>>

nvars == <<hvars, cvars, tvars, uvars, wvars, rvars>>

vars == <<qvars, svars, lvars, evars, nvars>>

\* ------------------------------------------------------------------------
\* Bounds of the model
\* ------------------------------------------------------------------------
\* SpecQueue: number of setState calls in one behaviour
MaxUpdates == 2
\* SpecSched: number of setState calls in one behaviour
MaxSetStateCalls == 2
\* SpecList: number of keys, and of elements in an array of children
MaxKeys == 3
MaxChildren == 2
\* SpecEffect: number of render passes in one behaviour
MaxPasses == 3
\* SpecHooks: number of hook calls in one render of the component
MaxHooks == 3
\* SpecClone: number of children of the fiber that bails out
MaxSiblings == 3
\* SpecTree: number of updates that wait in the queue of App
MaxTreePending == 2
\* SpecSuspense: number of calls of root.render
MaxRootRenders == 3
\* SpecUnwind: number of fibers on the path from the HostRoot
MaxUnwindDepth == 6
\* SpecUnwind: number of recorded reruns of a unit of work that threw
MaxErrorReruns == 2
\* SpecRef: number of render passes in one behaviour
MaxRefRenders == 3
\* SpecUnwind: number of entries that interrupted passes leave on the stacks
MaxStaleEntries == 1

\* ------------------------------------------------------------------------
\* fiberLanes.ts
\* ------------------------------------------------------------------------
SyncLane == {1}
NoLane == {}
NoLanes == {}
InputContinuousLane == {2}
DefaultLane == {4}
TransitionLane == {8}
IdleLane == {16}

mergeLanes(laneA, laneB) == laneA \cup laneB

\* lanes & -lanes : the lowest set bit
getHighestPriorityLane(lanes) ==
    IF lanes = {} THEN NoLane
    ELSE {CHOOSE b \in lanes : \A c \in lanes : b <= c}

\* A variant of isSubsetOfLanes that compares priorities: every lane of
\* subset is at least as urgent as the lanes of set.  With it a pass would
\* also take the updates of more urgent lanes.
isAtLeastPriorityOfLanes(set, subset) ==
    \A x \in subset : \A y \in set : x <= y

\* (set & subset) === subset
isSubsetOfLanes(set, subset) == (set \cap subset) = subset

includeSomeLanes(set, subset) == (set \cap subset) # {}

removeLanes(set, subset) == set \ subset

\* A commit that takes every pending lane for finished.
markRootFinishedAll(fiberRoot, lane) ==
    [fiberRoot EXCEPT !.pendingLanes = NoLanes,
                 !.suspendedLanes = NoLanes,
                 !.pingedLanes = NoLanes]

\* A commit that takes its lane out of the pending lanes only.
markRootFinishedKeepsSuspended(fiberRoot, lane) ==
    [fiberRoot EXCEPT !.pendingLanes = @ \ lane]

markRootFinished(fiberRoot, lane) ==
    [fiberRoot EXCEPT !.pendingLanes = @ \ lane,
                 !.suspendedLanes = NoLanes,
                 !.pingedLanes = NoLanes]

\* A ping that leaves root.pingedLanes as it is.
markRootPingedLost(fiberRoot, pingedLane) == fiberRoot

markRootPinged(fiberRoot, pingedLane) ==
    [fiberRoot EXCEPT !.pingedLanes = @ \cup (fiberRoot.suspendedLanes \cap pingedLane)]

markRootSuspended(fiberRoot, suspendedLane) ==
    [fiberRoot EXCEPT !.suspendedLanes = @ \cup suspendedLane,
                 !.pingedLanes = @ \ suspendedLane]

\* A variant of getNextLane that looks at the pinged lanes before the lanes
\* that are not suspended.
getNextLanePingedFirst(fiberRoot) ==
    LET pendingLanes == fiberRoot.pendingLanes
        suspendedLanes == pendingLanes \ fiberRoot.suspendedLanes
        pingedLanes == pendingLanes \cap fiberRoot.pingedLanes
    IN  IF pendingLanes = NoLanes THEN NoLane
        ELSE IF pingedLanes # NoLanes THEN getHighestPriorityLane(pingedLanes)
        ELSE IF suspendedLanes # NoLanes THEN getHighestPriorityLane(suspendedLanes)
        ELSE NoLane

\* A variant of getNextLane in which a suspended lane that has not been
\* pinged keeps the lanes of lower priority waiting.
getNextLaneBehindSuspended(fiberRoot) ==
    LET highest == getHighestPriorityLane(fiberRoot.pendingLanes)
    IN  IF highest \cap (fiberRoot.suspendedLanes \ fiberRoot.pingedLanes) # NoLanes
        THEN NoLane
        ELSE highest

getNextLane(fiberRoot) ==
    LET pendingLanes == fiberRoot.pendingLanes
        \* pendingLanes & ~root.suspendedLanes
        suspendedLanes == pendingLanes \ fiberRoot.suspendedLanes
        pingedLanes == pendingLanes \cap fiberRoot.pingedLanes
    IN  IF pendingLanes = NoLanes THEN NoLane
        ELSE IF suspendedLanes # NoLanes THEN getHighestPriorityLane(suspendedLanes)
        ELSE IF pingedLanes # NoLanes THEN getHighestPriorityLane(pingedLanes)
        ELSE NoLane

\* workLoop.ts
markRootUpdated(fiberRoot, lane) ==
    [fiberRoot EXCEPT !.pendingLanes = mergeLanes(@, lane)]

\* ------------------------------------------------------------------------
\* updateQueue.ts
\* ------------------------------------------------------------------------
\* the value of eagerState when hasEagerState is false (null in the source)
NullState == -1

\* The actions a caller passes to setState: the updater function c => c + 1
\* and the plain value 0.
Actions == {"inc", "zero"}

\* An Update object.  id is the number of the setState call that created the
\* update; a clone keeps it.  The list of updates (circular in the source)
\* is a sequence that starts at its first update.
createUpdate(action, lane, id) ==
    [id |-> id, action |-> action, lane |-> lane,
     hasEagerState |-> FALSE, eagerState |-> NullState]

basicStateReducer(state, action) ==
    IF action = "inc"
    THEN \* action instanceof Function: action(state)
         state + 1
    ELSE \* the action is the new state
         0

\* processUpdate with the clone of an applied update keeping its lane.
processUpdateKeepLane(acc, pending, baseState, renderLane) ==
    IF ~isSubsetOfLanes(renderLane, pending.lane)
    THEN LET clone == createUpdate(pending.action, pending.lane, pending.id)
         IN  [acc EXCEPT
                !.newBaseQueue = Append(@, clone),
                !.newBaseState = IF acc.newBaseQueue = <<>> THEN acc.newState ELSE @,
                !.skippedLanes = @ \cup clone.lane]
    ELSE [acc EXCEPT
            !.applied = @ \cup {pending.id},
            !.newBaseQueue =
                IF @ # <<>>
                THEN Append(@, createUpdate(pending.action, pending.lane, pending.id))
                ELSE @,
            !.newState =
                IF pending.hasEagerState THEN pending.eagerState
                ELSE basicStateReducer(baseState, pending.action)]

\* One iteration of the do-while loop of processUpdateQueue.  applied
\* collects the ids of the updates that take the else branch.
processUpdate(acc, pending, baseState, renderLane) ==
    IF ~isSubsetOfLanes(renderLane, pending.lane)
    THEN LET clone == createUpdate(pending.action, pending.lane, pending.id)
         IN  [acc EXCEPT
                !.newBaseQueue = Append(@, clone),
                !.newBaseState = IF acc.newBaseQueue = <<>> THEN acc.newState ELSE @,
                !.skippedLanes = @ \cup clone.lane]
    ELSE [acc EXCEPT
            !.applied = @ \cup {pending.id},
            !.newBaseQueue =
                IF @ # <<>>
                THEN Append(@, createUpdate(pending.action, NoLane, pending.id))
                ELSE @,
            !.newState =
                IF pending.hasEagerState THEN pending.eagerState
                ELSE basicStateReducer(baseState, pending.action)]

RECURSIVE processUpdates(_, _, _, _, _)
processUpdates(acc, pendingQueue, i, baseState, renderLane) ==
    IF i > Len(pendingQueue) THEN acc
    ELSE processUpdates(processUpdate(acc, pendingQueue[i], baseState, renderLane),
                        pendingQueue, i + 1, baseState, renderLane)

\* skippedLanes collects what the onSkipUpdate callback receives.
processUpdateQueue(baseState, pendingUpdate, renderLane) ==
    IF pendingUpdate = <<>>
    THEN [memoizedState |-> baseState, baseState |-> baseState,
          baseQueue |-> <<>>, skippedLanes |-> NoLanes, applied |-> {}]
    ELSE LET acc == processUpdates(
                      [newState |-> baseState, newBaseState |-> baseState,
                       newBaseQueue |-> <<>>, skippedLanes |-> NoLanes,
                       applied |-> {}],
                      pendingUpdate, 1, baseState, renderLane)
         IN  [memoizedState |-> acc.newState,
              baseState |-> IF acc.newBaseQueue = <<>> THEN acc.newState
                            ELSE acc.newBaseState,
              baseQueue |-> acc.newBaseQueue,
              skippedLanes |-> acc.skippedLanes,
              applied |-> acc.applied]

\* ========================================================================
\* SpecQueue: the state hook of X, its update queue and the render passes.
\* ========================================================================
\* requestUpdateLane: SyncLane inside a click handler (ImmediatePriority),
\* DefaultLane outside of an event (NormalPriority).
requestUpdateLane == {SyncLane, DefaultLane}

\* fiberHooks.ts mountState: the hook after the mount has been committed.
mountStateHook(initialState) ==
    [memoizedState |-> initialState, baseState |-> initialState, baseQueue |-> <<>>]

QInit ==
    /\ mountState \in {0, 1}
    /\ queue = [pending |-> <<>>, lastRenderedState |-> mountState]
    /\ currentHook = mountStateHook(mountState)
    /\ wipHook = mountStateHook(mountState)
    /\ fiberLanes = [current |-> NoLanes, alternate |-> NoLanes]
    /\ root = [pendingLanes |-> NoLanes, suspendedLanes |-> NoLanes,
               pingedLanes |-> NoLanes]
    /\ wipRoot = [lane |-> NoLane, stage |-> "idle"]
    /\ pingCache = {}
    /\ thenableThrown = FALSE
    /\ updateLog = <<>>
    /\ commitLog = <<>>
    /\ passRec = [lane |-> NoLane, baseState |-> mountState, queue |-> <<>>,
                  memoizedState |-> mountState, baseQueue |-> <<>>,
                  applied |-> {}]
    /\ noEager = [queue |-> queue, currentHook |-> currentHook,
                  wipHook |-> wipHook, fiberLanes |-> fiberLanes,
                  passRec |-> passRec]
    /\ renderStarted = FALSE

\* fiberHooks.ts dispatchSetState, with enqueueUpdate and the lane marking of
\* scheduleUpdateOnFiber.  The alternate of X, while it does not exist yet,
\* has the lanes NoLanes.
dispatchSetState(action, lane) ==
    LET update == createUpdate(action, lane, Len(updateLog) + 1)
        eager == fiberLanes.current = NoLanes /\ fiberLanes.alternate = NoLanes
        currentState == queue.lastRenderedState
        eagarState == basicStateReducer(currentState, action)
        hit == eager /\ currentState = eagarState
        enqueued == IF eager
                    THEN [update EXCEPT !.hasEagerState = TRUE,
                                        !.eagerState = eagarState]
                    ELSE update
        fiberLane == IF hit THEN NoLane ELSE lane
    IN  /\ queue' = [queue EXCEPT !.pending = Append(@, enqueued)]
        /\ fiberLanes' = [current |-> mergeLanes(fiberLanes.current, fiberLane),
                          alternate |-> mergeLanes(fiberLanes.alternate, fiberLane)]
        /\ root' = IF hit THEN root ELSE markRootUpdated(root, lane)
        /\ updateLog' = Append(updateLog,
                               [action |-> action, lane |-> lane,
                                early |-> ~renderStarted, hit |-> hit])
        /\ noEager' =
              [noEager EXCEPT
                  !.queue.pending = Append(@, update),
                  !.fiberLanes = [current |-> mergeLanes(@.current, lane),
                                  alternate |-> mergeLanes(@.alternate, lane)]]
        /\ UNCHANGED <<svars, lvars, evars, nvars>>
        /\ UNCHANGED <<currentHook, wipHook, wipRoot, pingCache, thenableThrown, mountState,
                       commitLog, passRec, renderStarted>>

\* fiberHooks.ts updateState on the hook of X in a pass at renderLane.
updateState(q, current, renderLane) ==
    LET pending == q.pending
        baseQueue == current.baseQueue \o pending
        r == processUpdateQueue(current.baseState, baseQueue, renderLane)
    IN  IF baseQueue = <<>>
        THEN [queue |-> q, current |-> current, hook |-> current,
              skippedLanes |-> NoLanes, received |-> FALSE,
              rec |-> [lane |-> renderLane, baseState |-> current.baseState,
                       queue |-> <<>>, memoizedState |-> current.memoizedState,
                       baseQueue |-> <<>>, applied |-> {}]]
        ELSE [queue |-> [pending |-> <<>>, lastRenderedState |-> r.memoizedState],
              current |-> [current EXCEPT !.baseQueue = baseQueue],
              hook |-> [memoizedState |-> r.memoizedState,
                        baseState |-> r.baseState,
                        baseQueue |-> r.baseQueue],
              skippedLanes |-> r.skippedLanes,
              received |-> current.memoizedState # r.memoizedState,
              rec |-> [lane |-> renderLane, baseState |-> current.baseState,
                       queue |-> baseQueue, memoizedState |-> r.memoizedState,
                       baseQueue |-> r.baseQueue, applied |-> r.applied]]

\* beginWork.ts beginWork and updateFunctionComponent on the fiber of X.
\* st holds queue, currentHook, wipHook, fiberLanes and passRec; the
\* work-in-progress fiber starts with what createWorkInProgress copies.
updateFunctionComponent(st, renderLane, propsChanged) ==
    IF ~propsChanged /\ ~includeSomeLanes(st.fiberLanes.current, renderLane)
    THEN \* bailoutOnAlreadyFinishedWork
         [st EXCEPT !.wipHook = st.currentHook,
                    !.fiberLanes = [current |-> st.fiberLanes.current,
                                    alternate |-> st.fiberLanes.current]]
    ELSE LET us == updateState(st.queue, st.currentHook, renderLane)
             didReceiveUpdate == propsChanged \/ us.received
         IN  [queue |-> us.queue,
              currentHook |-> us.current,
              wipHook |-> us.hook,
              fiberLanes |->
                 [current |-> IF didReceiveUpdate THEN st.fiberLanes.current
                              \* bailoutHook
                              ELSE removeLanes(st.fiberLanes.current, renderLane),
                  \* wip.lanes = NoLanes, then the lanes of the skipped updates
                  alternate |-> mergeLanes(NoLanes, us.skippedLanes)],
              passRec |-> us.rec]

\* The ways one call of performSyncWorkOnRoot / performConcurrentWorkOnRoot
\* can go: the time slice ends before or after the work on X, the pass
\* completes (with or without a Suspense fallback that threw a thenable), or
\* a thenable unwinds to the root before or after the work on X.
Yields == {"yieldBefore", "yieldAfter"}
Ends == {"completed", "fallback", "didNotCompleteBefore", "didNotCompleteAfter"}
\* How the pass reaches X: its parent re-rendered and passes new props, X is
\* reached with the same props, or X is not reached because an ancestor of
\* X bailed out with childLanes that do not include the render lane.  The
\* childLanes of a fiber are what bubbleProperties last computed for it
\* (completeWork.ts); markUpdateFromFiberToRoot does not add the lane of a
\* new update to them (workLoop.ts), so X is not reached for sure because
\* its lanes include the render lane.
XModes == {"props", "same", "skip"}

\* renderRoot at lane followed by the switch on the exit status
\* (commitRoot on RootCompleted, markRootSuspended on RootDidNotComplete).
performWorkOnRoot(lane, how, xMode) ==
    LET \* prepareFreshStack when wipRootRenderLane differs from lane
        stage0 == IF wipRoot.lane # lane THEN "begun" ELSE wipRoot.stage
        st0 == [queue |-> queue, currentHook |-> currentHook, wipHook |-> wipHook,
                fiberLanes |-> fiberLanes, passRec |-> passRec]
        worksOnX == stage0 = "begun" /\ how \notin {"yieldBefore", "didNotCompleteBefore"}
        st1 == IF worksOnX /\ xMode # "skip"
               THEN updateFunctionComponent(st0, lane, xMode = "props")
               ELSE st0
        stage1 == IF worksOnX
                  THEN (IF xMode = "skip" THEN "skipped" ELSE "done")
                  ELSE stage0
        committed == how \in {"completed", "fallback"}
        threw == how \in {"fallback", "didNotCompleteBefore", "didNotCompleteAfter"}
        ne1 == IF worksOnX /\ xMode # "skip"
               THEN updateFunctionComponent(noEager, lane, xMode = "props")
               ELSE noEager
    IN  /\ how \in {"yieldBefore", "didNotCompleteBefore"} => stage0 = "begun"
        /\ noEager' = IF committed /\ stage1 = "done"
                      THEN [ne1 EXCEPT
                              !.currentHook = ne1.wipHook,
                              !.wipHook = ne1.currentHook,
                              !.fiberLanes = [current |-> ne1.fiberLanes.alternate,
                                              alternate |-> ne1.fiberLanes.current]]
                      ELSE ne1
        /\ ~worksOnX => xMode = "same"
        /\ threw => ~thenableThrown
        /\ queue' = st1.queue
        /\ passRec' = st1.passRec
        /\ IF committed /\ stage1 = "done"
           THEN \* root.current = finishedWork: the fibers of X swap roles
                /\ currentHook' = st1.wipHook
                /\ wipHook' = st1.currentHook
                /\ fiberLanes' = [current |-> st1.fiberLanes.alternate,
                                  alternate |-> st1.fiberLanes.current]
           ELSE /\ currentHook' = st1.currentHook
                /\ wipHook' = st1.wipHook
                /\ fiberLanes' = st1.fiberLanes
        /\ root' = IF committed THEN markRootFinished(root, lane)
                   ELSE IF how \in Yields THEN root
                   ELSE markRootSuspended(root, lane)
        /\ wipRoot' = IF how \in Yields THEN [lane |-> lane, stage |-> stage1]
                      ELSE [lane |-> NoLane, stage |-> "idle"]
        /\ pingCache' = IF threw THEN pingCache \cup {lane} ELSE pingCache
        /\ thenableThrown' = (thenableThrown \/ threw)
        /\ commitLog' = IF committed THEN Append(commitLog, lane) ELSE commitLog
        /\ renderStarted' = TRUE
        /\ UNCHANGED <<mountState, updateLog>>
        /\ UNCHANGED <<svars, lvars, evars, nvars>>

DispatchSetState ==
    /\ Len(updateLog) < MaxUpdates
    /\ \E action \in Actions, lane \in requestUpdateLane :
          dispatchSetState(action, lane)

\* workLoop.ts performSyncWorkOnRoot, called when the next lane is SyncLane.
PerformSyncWorkOnRoot ==
    /\ getNextLane(root) = SyncLane
    /\ \E how \in Ends, xMode \in XModes :
          performWorkOnRoot(SyncLane, how, xMode)

\* workLoop.ts performConcurrentWorkOnRoot, one call by the scheduler.
PerformConcurrentWorkOnRoot ==
    /\ getNextLane(root) \notin {NoLane, SyncLane}
    /\ \E how \in Yields \cup Ends, xMode \in XModes :
          performWorkOnRoot(getNextLane(root), how, xMode)

\* fiberThrow.ts attachPingListener, the ping callback of a settled thenable.
Ping ==
    \E lane \in pingCache :
        /\ pingCache' = pingCache \ {lane}
        /\ root' = markRootPinged(markRootUpdated(root, lane), lane)
        /\ UNCHANGED <<svars, lvars, evars, nvars>>
        /\ UNCHANGED <<queue, currentHook, wipHook, fiberLanes, wipRoot, thenableThrown,
                       mountState, updateLog, commitLog, passRec, noEager,
                       renderStarted>>

\* One call of setState more than DispatchSetState allows: a call whose
\* update gets an eager state while the hook has a base queue needs a
\* skipped update, an applied one and the call itself.
DispatchEagerSetState ==
    /\ Len(updateLog) < MaxUpdates + 1
    /\ \E action \in Actions, lane \in requestUpdateLane :
          dispatchSetState(action, lane)

QNextEager ==
    \/ DispatchEagerSetState
    \/ PerformSyncWorkOnRoot
    \/ PerformConcurrentWorkOnRoot
    \/ Ping

QNext ==
    \/ DispatchSetState
    \/ PerformSyncWorkOnRoot
    \/ PerformConcurrentWorkOnRoot
    \/ Ping


\* ------------------------------------------------------------------------
\* Properties of the update queue
\* ------------------------------------------------------------------------
\* The left-to-right fold of the actions of log[i..] over state.
RECURSIVE FoldUpdates(_, _, _)
FoldUpdates(state, log, i) ==
    IF i > Len(log) THEN state
    ELSE FoldUpdates(IF log[i].action = "inc" THEN state + 1 ELSE 0, log, i + 1)

\* lane a has the priority of lane b or a higher one (a lower bit)
AtLeastPriority(a, b) == \A x \in a : \A y \in b : x <= y

LanesOfLog == {updateLog[i].lane : i \in DOMAIN updateLog}

AllEarly == \A i \in DOMAIN updateLog : updateLog[i].early

\* C1: when every setState call so far was made at one lane before any
\* render pass, and the one pass committed so far ran at that lane, the
\* committed state of the hook is the left-to-right fold of the actions over
\* the state the hook was mounted with.
C1_SameLaneFold ==
    (/\ updateLog # <<>>
     /\ AllEarly
     /\ ~thenableThrown
     /\ Len(commitLog) = 1
     /\ LanesOfLog = {commitLog[1]})
    => currentHook.memoizedState = FoldUpdates(mountState, updateLog, 1)

C3_TwoLaneFold ==
    (/\ AllEarly
     /\ ~thenableThrown
     /\ LanesOfLog = {SyncLane, DefaultLane}
     /\ commitLog = <<SyncLane, DefaultLane>>
     /\ queue.pending = <<>>
     /\ currentHook.baseQueue = <<>>)
    => currentHook.memoizedState = FoldUpdates(mountState, updateLog, 1)

\* Update id is not reflected in the committed tree: it waits in the pending
\* list of the queue, or with its lane in the base queue of the current
\* hook.  The eager-state hits, whose action does not change the state, are
\* left out.
WaitsForCommit(id) ==
    /\ id \in DOMAIN updateLog
    /\ ~updateLog[id].hit
    /\ \/ \E i \in DOMAIN queue.pending : queue.pending[i].id = id
       \/ \E i \in DOMAIN currentHook.baseQueue :
              /\ currentHook.baseQueue[i].id = id
              /\ currentHook.baseQueue[i].lane # NoLane

\* C18: every update whose action changes the state, once dispatched, is
\* eventually reflected in a committed tree.  A pass runs only for a root
\* that has a next lane, and a lane becomes pending only by a call of
\* setState or by the ping of a settled thenable.  So while such an update
\* is not reflected in the committed tree, the root has a next lane or a
\* thenable is still to settle: otherwise no pass runs any more unless
\* setState is called again.
C18_WaitingUpdateIsScheduled ==
    \A id \in DOMAIN updateLog :
        WaitsForCommit(id) => (getNextLane(root) # NoLane \/ pingCache # {})

\* The index of the first update of pendingQueue that a pass at renderLane
\* skips, 0 when it skips none.
FirstSkipped(pendingQueue, renderLane) ==
    LET skippedAt == {i \in DOMAIN pendingQueue :
                      ~isSubsetOfLanes(renderLane, pendingQueue[i].lane)}
    IN  IF skippedAt = {} THEN 0
        ELSE CHOOSE i \in skippedAt : \A j \in skippedAt : i <= j

\* C21: processUpdateQueue, on what the last pass handed to it, returns as
\* base state the state it computed from the updates before the first
\* skipped one (the final state when it skips none), and as base queue the
\* first skipped update and every update after it in the order of the
\* queue, a skipped one with its lane and an applied one with the empty
\* lane (no base queue when it skips none).
C21_BaseStateAndQueue ==
    LET q == passRec.queue
        r == processUpdateQueue(passRec.baseState, q, passRec.lane)
        k == FirstSkipped(q, passRec.lane)
    IN  /\ r.baseQueue = passRec.baseQueue
        /\ IF k = 0
           THEN /\ r.baseState = r.memoizedState
                /\ r.baseQueue = <<>>
           ELSE /\ r.baseState =
                     processUpdateQueue(passRec.baseState, SubSeq(q, 1, k - 1),
                                        passRec.lane).memoizedState
                /\ Len(r.baseQueue) = Len(q) - k + 1
                /\ \A j \in DOMAIN r.baseQueue :
                      LET u == q[k + j - 1]
                          clone == r.baseQueue[j]
                      IN  /\ clone.id = u.id
                          /\ clone.action = u.action
                          /\ clone.lane = IF u.id \in r.applied THEN NoLane
                                          ELSE u.lane

\* The last pass skipped an update and applied a later one that carried the
\* lane of the pass.
C21_Witness ==
    LET k == FirstSkipped(passRec.queue, passRec.lane)
    IN  /\ k > 0
        /\ \E i \in DOMAIN passRec.queue :
              /\ i > k
              /\ passRec.queue[i].lane = passRec.lane
              /\ passRec.queue[i].id \in passRec.applied
              /\ passRec.baseQueue[i - k + 1].lane = NoLane

\* C22: after every sequence of setState calls and render passes, the state
\* the last pass rendered for the hook of X and the state committed for it
\* are the ones that the same calls and passes give when every update is
\* enqueued at its lane without an eager state and reduced in the pass.
C22_EagerStateInvisible ==
    /\ currentHook.memoizedState = noEager.currentHook.memoizedState
    /\ wipHook.memoizedState = noEager.wipHook.memoizedState

\* ========================================================================
\* SpecSched: the root scheduling driver, render passes and the commit
\* phase (workLoop.ts, syncTaskQueue.ts, commitWork.ts).
\*
\* The tree is HostRoot -> App -> (div, span).  App is a function component
\* with a passive effect; div is always mounted; span carries a callback
\* ref, is mounted by some renders and removed by others.  A function of
\* the source is an operator from a machine state m (a record of all the
\* variables below) to the machine state it leaves.  The call stack is
\* explicit so that the steps of one commit are separate steps.
\* ========================================================================
RootInProgress == 0
RootInComplete == 1
RootCompleted == 2
RootDidNotComplete == 3

HostFibers == {"div", "span"}

\* the other tree of the double buffer
alternate(tree) == IF tree = "A" THEN "B" ELSE "A"

NoFlags == [mutation |-> [f \in HostFibers |-> "NoFlags"],
            ref |-> FALSE, passive |-> FALSE]

Machine ==
    [root |-> fiberRootNode, workInProgress |-> workInProgress,
     wipRootRenderLane |-> wipRootRenderLane,
     exitStatus |-> workInProgressRootExitStatus, wipFlags |-> wipFlags,
     rootDoesHasPassiveEffects |-> rootDoesHasPassiveEffects,
     syncQueue |-> syncQueue, isFlushingSyncQueue |-> isFlushingSyncQueue,
     microTasks |-> microTasks, taskQueue |-> taskQueue, stack |-> stack,
     hostTree |-> hostTree, setStateCalls |-> setStateCalls,
     thrown |-> thrown, syncCallbackCalls |-> syncCallbackCalls,
     unitsBegun |-> unitsBegun, batch |-> batch]

Becomes(m) ==
    /\ fiberRootNode' = m.root
    /\ workInProgress' = m.workInProgress
    /\ wipRootRenderLane' = m.wipRootRenderLane
    /\ workInProgressRootExitStatus' = m.exitStatus
    /\ wipFlags' = m.wipFlags
    /\ rootDoesHasPassiveEffects' = m.rootDoesHasPassiveEffects
    /\ syncQueue' = m.syncQueue
    /\ isFlushingSyncQueue' = m.isFlushingSyncQueue
    /\ microTasks' = m.microTasks
    /\ taskQueue' = m.taskQueue
    /\ stack' = m.stack
    /\ hostTree' = m.hostTree
    /\ setStateCalls' = m.setStateCalls
    /\ thrown' = m.thrown
    /\ syncCallbackCalls' = m.syncCallbackCalls
    /\ unitsBegun' = m.unitsBegun
    /\ batch' = m.batch
    /\ UNCHANGED <<qvars, lvars, evars, nvars>>

\* A frame of the call stack.  op is "flush" (the forEach of
\* flushSyncCallbacks over total callbacks, left callbacks to go), "concurrent"
\* (performConcurrentWorkOnRoot of scheduler task task, after its
\* flushPassiveEffects) or "commit" (commitRoot of tree, past its prologue;
\* muts are the fibers commitMutationEffects still has to visit).
Frame(op) ==
    [op |-> op, left |-> 0, total |-> 0, task |-> 0, curCallback |-> 0, didFlush |-> FALSE,
     didTimeout |-> FALSE, tree |-> "null", lane |-> NoLane,
     exitStatus |-> RootInProgress, phase |-> "none", muts |-> <<>>,
     flags |-> NoFlags, layoutDone |-> FALSE, micro |-> FALSE]

SInit ==
    /\ fiberRootNode =
          [pendingLanes |-> NoLanes, suspendedLanes |-> NoLanes,
           pingedLanes |-> NoLanes, callbackNode |-> 0,
           callbackPriority |-> NoLane, current |-> "A",
           finishedWork |-> "null", finishedLane |-> NoLane,
           pendingPassiveEffects |-> FALSE, pingCache |-> {}]
    /\ workInProgress = "null"
    /\ wipRootRenderLane = NoLane
    /\ workInProgressRootExitStatus = RootInProgress
    /\ wipFlags = NoFlags
    /\ rootDoesHasPassiveEffects = FALSE
    /\ syncQueue = 0
    /\ isFlushingSyncQueue = FALSE
    /\ microTasks = 0
    /\ taskQueue = {}
    /\ stack = <<>>
    /\ hostTree = [f \in HostFibers |-> IF f = "div" THEN "A" ELSE "none"]
    /\ setStateCalls = 0
    /\ thrown = FALSE
    /\ syncCallbackCalls = <<>>
    /\ unitsBegun = <<>>
    /\ batch = [open |-> FALSE, updates |-> 0, renders |-> 0, commits |-> 0,
                suspended |-> FALSE]

\* ids of scheduler tasks that are still referred to
UsedTaskIds(m) ==
    {t.id : t \in m.taskQueue} \cup {m.root.callbackNode}
        \cup {m.stack[i].task : i \in DOMAIN m.stack}
        \cup {m.stack[i].curCallback : i \in DOMAIN m.stack}

\* scheduler: unstable_scheduleCallback returns a new task node
NewTaskId(m) ==
    CHOOSE i \in 1..(Cardinality(UsedTaskIds(m)) + 1) : i \notin UsedTaskIds(m)

\* scheduler: unstable_cancelCallback(node); null is 0
cancelCallback(tasks, node) == {t \in tasks : t.id # node}

\* A scheduling that hands the work of every lane to the scheduler.
ensureRootIsScheduledAsTask(m) ==
    LET updateLane == getNextLane(m.root)
        existingCallback == m.root.callbackNode
        prevPriority == m.root.callbackPriority
        cancelled == cancelCallback(m.taskQueue, existingCallback)
    IN  IF updateLane = NoLane
        THEN [m EXCEPT !.taskQueue = cancelled,
                       !.root.callbackNode = 0,
                       !.root.callbackPriority = NoLane]
        ELSE IF updateLane = prevPriority THEN m
        ELSE [m EXCEPT !.taskQueue = cancelled \cup
                           {[id |-> NewTaskId(m), kind |-> "render"]},
                       !.root.callbackNode = NewTaskId(m),
                       !.root.callbackPriority = updateLane]

\* A scheduling that leaves the callback of the former priority in the
\* scheduler.
ensureRootIsScheduledKeepingStale(m) ==
    LET updateLane == getNextLane(m.root)
        existingCallback == m.root.callbackNode
        prevPriority == m.root.callbackPriority
        cancelled == cancelCallback(m.taskQueue, existingCallback)
    IN  IF updateLane = NoLane
        THEN [m EXCEPT !.taskQueue = cancelled,
                       !.root.callbackNode = 0,
                       !.root.callbackPriority = NoLane]
        ELSE IF updateLane = prevPriority THEN m
        ELSE IF updateLane = SyncLane
        THEN [m EXCEPT !.syncQueue = @ + 1,
                       !.syncCallbackCalls = Append(@, 0),
                       !.microTasks = @ + 1,
                       !.root.callbackNode = 0,
                       !.root.callbackPriority = updateLane]
        ELSE [m EXCEPT !.taskQueue = @ \cup
                           {[id |-> NewTaskId(m), kind |-> "render"]},
                       !.root.callbackNode = NewTaskId(m),
                       !.root.callbackPriority = updateLane]

\* workLoop.ts ensureRootIsScheduled
ensureRootIsScheduled(m) ==
    LET updateLane == getNextLane(m.root)
        existingCallback == m.root.callbackNode
        prevPriority == m.root.callbackPriority
        cancelled == cancelCallback(m.taskQueue, existingCallback)
    IN  IF updateLane = NoLane
        THEN [m EXCEPT !.taskQueue = cancelled,
                       !.root.callbackNode = 0,
                       !.root.callbackPriority = NoLane]
        ELSE IF updateLane = prevPriority THEN m
        ELSE IF updateLane = SyncLane
        THEN \* scheduleSyncCallback and scheduleMicroTask(flushSyncCallbacks)
             [m EXCEPT !.taskQueue = cancelled,
                       !.syncQueue = @ + 1,
                       !.syncCallbackCalls = Append(@, 0),
                       !.microTasks = @ + 1,
                       !.root.callbackNode = 0,
                       !.root.callbackPriority = updateLane]
        ELSE [m EXCEPT !.taskQueue = cancelled \cup
                           {[id |-> NewTaskId(m), kind |-> "render"]},
                       !.root.callbackNode = NewTaskId(m),
                       !.root.callbackPriority = updateLane]

\* workLoop.ts scheduleUpdateOnFiber
scheduleUpdateOnFiber(m, lane) ==
    ensureRootIsScheduled([m EXCEPT !.root = markRootUpdated(@, lane)])

\* The flags a render pass can leave on the tree, given what is mounted:
\* div is updated or untouched, span is placed, updated, deleted or
\* untouched; Ref is flagged only on a fiber without a current (markRef of
\* beginWork.ts and completeWork.ts: createWorkInProgress gives the fiber
\* of an update the ref of its current), so on span when it is placed.
FlagChoices(host) ==
    {fl \in [mutation : [HostFibers -> {"NoFlags", "Placement", "Update", "ChildDeletion"}],
             ref : BOOLEAN, passive : BOOLEAN] :
        /\ fl.mutation["div"] \in {"NoFlags", "Update"}
        /\ fl.mutation["span"] \in
              (IF host["span"] = "none" THEN {"NoFlags", "Placement"}
               ELSE {"NoFlags", "Update", "ChildDeletion"})
        /\ fl.ref => fl.mutation["span"] = "Placement"}

\* history: while the event's flush is open, a render pass begins, ends
\* without completing, is committed
noteRender(b) == IF b.open THEN [b EXCEPT !.renders = @ + 1] ELSE b
noteSuspended(b) == IF b.open THEN [b EXCEPT !.suspended = TRUE] ELSE b
noteCommit(b) == IF b.open THEN [b EXCEPT !.commits = @ + 1] ELSE b

\* workLoop.ts prepareFreshStack
prepareFreshStack(m, lane) ==
    [m EXCEPT !.root.finishedLane = NoLane,
              !.root.finishedWork = "null",
              !.workInProgress = "HostRoot",
              !.wipRootRenderLane = lane,
              !.exitStatus = RootInProgress,
              !.wipFlags = NoFlags,
              !.batch = noteRender(@)]

\* the fibers the work loop can stop at when it is at fiber: the units of
\* work are HostRoot, App and the host children of App
StopsFrom(fiber) ==
    IF fiber = "HostRoot" THEN {"HostRoot", "App", "div", "null"}
    ELSE IF fiber = "App" THEN {"App", "div", "null"}
    ELSE IF fiber = "div" THEN {"div", "null"}
    ELSE {"null"}

\* beginWork of App reconciles its children (Placement, ChildDeletion) and
\* runs its hooks (PassiveEffect)
flagsOfApp(w, flags) ==
    [w EXCEPT !.mutation["span"] =
                  IF flags.mutation["span"] \in {"Placement", "ChildDeletion"}
                  THEN flags.mutation["span"] ELSE "NoFlags",
              !.passive = flags.passive]

\* completeWork of the host children marks Update and Ref
flagsOfHost(w, flags) ==
    [w EXCEPT !.mutation["div"] = flags.mutation["div"],
              !.mutation["span"] =
                  IF @ = "NoFlags" /\ flags.mutation["span"] = "Update"
                  THEN "Update" ELSE @,
              !.ref = flags.ref]

\* the flags that a pass from fiber to stop can set
FlagsFor(host, from, stop) ==
    {fl \in FlagChoices(host) :
        /\ ~(from \in {"HostRoot", "App"} /\ stop \in {"div", "null"}) =>
               fl.mutation["span"] \notin {"Placement", "ChildDeletion"} /\ ~fl.passive
        /\ ~(from # "null" /\ stop = "null") =>
               fl.mutation["div"] = "NoFlags" /\ fl.mutation["span"] # "Update"}

\* The units of work in the order of the work loop, and the fibers that
\* performUnitOfWork runs beginWork on when the loop goes from the fiber
\* from to the fiber stop (the loop also stops after the beginWork of App
\* that throws).
UnitsOfWork == <<"HostRoot", "App", "div", "null">>

UnitIndex(fiber) == CHOOSE i \in DOMAIN UnitsOfWork : UnitsOfWork[i] = fiber

UnitsFrom(from, stop) == SubSeq(UnitsOfWork, UnitIndex(from), UnitIndex(stop) - 1)

\* the fibers of a log of begin steps and yields
BegunFibers(log) == SelectSeq(log, LAMBDA u : u # "yield")

\* history: the work loop yields (one entry for yields that follow each
\* other)
noteYield(log) ==
    IF log # <<>> /\ log[Len(log)] = "yield" THEN log ELSE Append(log, "yield")

\* renderRoot with a prepareFreshStack at every call.
renderRootFromTheRoot(m, lane, shouldTimeSlice, stop, flags, throws) ==
    LET m0 == prepareFreshStack(m, lane)
        from == m0.workInProgress
        begun0 == IF m.wipRootRenderLane # lane THEN <<>> ELSE m.unitsBegun
        doesApp == from \in {"HostRoot", "App"} /\ stop \in {"div", "null"}
        doesHost == from # "null" /\ stop = "null"
        w1 == IF doesApp THEN flagsOfApp(m0.wipFlags, flags) ELSE m0.wipFlags
        w2 == IF doesHost THEN flagsOfHost(w1, flags) ELSE w1
        m1 == IF doesApp /\ throws
              THEN [m0 EXCEPT !.workInProgress = "null",
                              !.exitStatus = RootDidNotComplete,
                              !.thrown = TRUE,
                              !.unitsBegun = begun0 \o UnitsFrom(from, "div"),
                              !.root.pingCache = @ \cup {lane}]
              ELSE [m0 EXCEPT !.workInProgress = stop, !.wipFlags = w2,
                              !.unitsBegun = begun0 \o UnitsFrom(from, stop)]
        \* workInProgressRootExitStatus is RootInProgress unless the pass
        \* has unwound to the root; the variable of the model also keeps
        \* what the last call of renderRoot returned
        yields == /\ m1.exitStatus # RootDidNotComplete
                  /\ shouldTimeSlice
                  /\ m1.workInProgress # "null"
    IN  [m1 EXCEPT !.exitStatus =
            IF m1.exitStatus = RootDidNotComplete THEN RootDidNotComplete
            ELSE IF yields THEN RootInComplete
            ELSE RootCompleted,
                   !.unitsBegun = IF yields THEN noteYield(@) ELSE @]

\* workLoop.ts renderRoot: the work loop runs until workInProgress is stop
\* (the end of the tree, or the fiber at which shouldYield turns true).
\* When throws, App throws a thenable that no Suspense boundary catches
\* (handleThrow, throwException with attachPingListener, unwindUnitOfWork).
renderRoot(m, lane, shouldTimeSlice, stop, flags, throws) ==
    LET m0 == IF m.wipRootRenderLane # lane THEN prepareFreshStack(m, lane) ELSE m
        from == m0.workInProgress
        begun0 == IF m.wipRootRenderLane # lane THEN <<>> ELSE m.unitsBegun
        doesApp == from \in {"HostRoot", "App"} /\ stop \in {"div", "null"}
        doesHost == from # "null" /\ stop = "null"
        w1 == IF doesApp THEN flagsOfApp(m0.wipFlags, flags) ELSE m0.wipFlags
        w2 == IF doesHost THEN flagsOfHost(w1, flags) ELSE w1
        m1 == IF doesApp /\ throws
              THEN [m0 EXCEPT !.workInProgress = "null",
                              !.exitStatus = RootDidNotComplete,
                              !.thrown = TRUE,
                              !.unitsBegun = begun0 \o UnitsFrom(from, "div"),
                              !.root.pingCache = @ \cup {lane}]
              ELSE [m0 EXCEPT !.workInProgress = stop, !.wipFlags = w2,
                              !.unitsBegun = begun0 \o UnitsFrom(from, stop)]
        \* workInProgressRootExitStatus is RootInProgress unless the pass
        \* has unwound to the root; the variable of the model also keeps
        \* what the last call of renderRoot returned
        yields == /\ m1.exitStatus # RootDidNotComplete
                  /\ shouldTimeSlice
                  /\ m1.workInProgress # "null"
    IN  [m1 EXCEPT !.exitStatus =
            IF m1.exitStatus = RootDidNotComplete THEN RootDidNotComplete
            ELSE IF yields THEN RootInComplete
            ELSE RootCompleted,
                   !.unitsBegun = IF yields THEN noteYield(@) ELSE @]

\* the fibers with work for commitMutationEffects, in the order commitEffects
\* reaches them (children before their parent)
MutationFibers(flags) ==
    (IF flags.mutation["div"] # "NoFlags" THEN <<"div">> ELSE <<>>)
    \o (IF flags.mutation["span"] \in {"Placement", "Update"} THEN <<"span">> ELSE <<>>)
    \o (IF flags.mutation["span"] = "ChildDeletion" \/ flags.passive
        THEN <<"App">> ELSE <<>>)

\* workLoop.ts commitRoot up to the call of commitMutationEffects; without
\* effects, the whole of commitRoot.
commitRoot(m, exitStatus) ==
    LET finishedWork == m.root.finishedWork
        lane == m.root.finishedLane
        flags == m.wipFlags
        m1 == [m EXCEPT !.root = markRootFinished(
                                    [@ EXCEPT !.finishedWork = "null",
                                              !.finishedLane = NoLane], lane),
                        !.batch = noteCommit(@)]
        \* PassiveMask = PassiveEffect | ChildDeletion
        hasPassive == flags.passive \/ flags.mutation["span"] = "ChildDeletion"
        m2 == IF hasPassive /\ ~m1.rootDoesHasPassiveEffects
              THEN [m1 EXCEPT !.rootDoesHasPassiveEffects = TRUE,
                              !.taskQueue = @ \cup {[id |-> NewTaskId(m1),
                                                     kind |-> "passive"]}]
              ELSE m1
    IN  IF finishedWork = "null" THEN m
        ELSE IF MutationFibers(flags) # <<>>
        THEN [m2 EXCEPT !.stack =
                 <<[Frame("commit") EXCEPT !.tree = finishedWork,
                                           !.lane = lane,
                                           !.exitStatus = exitStatus,
                                           !.phase = "mutation",
                                           !.muts = MutationFibers(flags),
                                           !.flags = flags]>> \o @]
        ELSE ensureRootIsScheduled(
                 [m2 EXCEPT !.root.current = finishedWork,
                            !.rootDoesHasPassiveEffects = FALSE])

\* A driver that commits whatever pass has returned.
commitsOnAnyEnd(exitStatus) == exitStatus # RootInProgress

\* The exit status after which the driver commits.
commitsOn(exitStatus) == exitStatus = RootCompleted

\* case RootCompleted of performSyncWorkOnRoot and performConcurrentWorkOnRoot
rootCompleted(m, lane) ==
    commitRoot([m EXCEPT !.root.finishedWork = alternate(m.root.current),
                         !.root.finishedLane = lane,
                         !.wipRootRenderLane = NoLane,
                         !.unitsBegun = BegunFibers(@)], m.exitStatus)

\* A driver that drops the pass without marking its lane.
rootDidNotCompleteUnmarked(m, lane) ==
    ensureRootIsScheduled(
        [m EXCEPT !.wipRootRenderLane = NoLane,
                  !.unitsBegun = BegunFibers(@),
                  !.batch = noteSuspended(@)])

\* A driver that keeps wipRootRenderLane when the pass did not complete.
rootDidNotCompleteKeepsLane(m, lane) ==
    ensureRootIsScheduled(
        [m EXCEPT !.unitsBegun = BegunFibers(@),
                  !.root = markRootSuspended(@, lane),
                  !.batch = noteSuspended(@)])

\* case RootDidNotComplete
rootDidNotComplete(m, lane) ==
    ensureRootIsScheduled(
        [m EXCEPT !.wipRootRenderLane = NoLane,
                  !.unitsBegun = BegunFibers(@),
                  !.root = markRootSuspended(@, lane),
                  !.batch = noteSuspended(@)])

\* performSyncWorkOnRoot without its check of the lane
performSyncWorkOnRootUnchecked(m, flags, throws) ==
    LET nextLane == getNextLane(m.root)
        r == renderRoot(m, nextLane, FALSE, "null", flags, throws)
    IN  IF commitsOn(r.exitStatus) THEN rootCompleted(r, nextLane)
        ELSE rootDidNotComplete(r, nextLane)

\* workLoop.ts performSyncWorkOnRoot
performSyncWorkOnRoot(m, flags, throws) ==
    LET nextLane == getNextLane(m.root)
        r == renderRoot(m, nextLane, FALSE, "null", flags, throws)
    IN  IF nextLane # SyncLane THEN ensureRootIsScheduled(m)
        ELSE IF commitsOn(r.exitStatus) THEN rootCompleted(r, nextLane)
        ELSE rootDidNotComplete(r, nextLane)

\* syncTaskQueue.ts flushSyncCallbacks up to the forEach over the queue
flushSyncCallbacks(m, micro) ==
    IF ~m.isFlushingSyncQueue /\ m.syncQueue > 0
    THEN [m EXCEPT !.isFlushingSyncQueue = TRUE,
                   !.stack = <<[Frame("flush") EXCEPT !.left = m.syncQueue,
                                                      !.total = m.syncQueue,
                                                      !.micro = micro]>> \o @]
    ELSE [m EXCEPT !.batch = IF micro THEN [@ EXCEPT !.open = FALSE] ELSE @]

\* A setState call made by a callback that the commit or the passive flush
\* invokes (a callback ref, an effect).  These run at the scheduler's normal
\* priority, so requestUpdateLane gives DefaultLane; NoLane stands for a
\* callback that calls no setState.
CallbackLanes(m) ==
    IF m.setStateCalls < MaxSetStateCalls THEN {NoLane, DefaultLane} ELSE {NoLane}

setStateInCallback(m, lane) ==
    IF lane = NoLane THEN m
    ELSE scheduleUpdateOnFiber([m EXCEPT !.setStateCalls = @ + 1], lane)

\* workLoop.ts flushPassiveEffects: the effects run (cb is the setState call
\* they make), the lists are emptied, then flushSyncCallbacks.
flushPassiveEffects(m, cb) ==
    flushSyncCallbacks(
        setStateInCallback([m EXCEPT !.root.pendingPassiveEffects = FALSE], cb),
        FALSE)

\* A commit that attaches the refs before it swaps the trees.
layoutBeforeCurrent(phase) ==
    IF phase = "mutation" THEN "layout"
    ELSE IF phase = "layout" THEN "current"
    ELSE "finish"

\* The order of the three parts of commitRoot.
phaseAfter(phase) ==
    IF phase = "mutation" THEN "current"
    ELSE IF phase = "current" THEN "layout"
    ELSE "finish"

\* commitWork.ts commitMutationEffectsOnFiber on one fiber of the finished
\* tree: Placement, Update, ChildDeletion, the collection of the passive
\* effects, the detachment of the ref.
commitMutationEffectsOnFiber(m, frame, fiber) ==
    LET flag == IF fiber = "App" THEN frame.flags.mutation["span"]
                ELSE frame.flags.mutation[fiber]
    IN  [m EXCEPT
           !.hostTree =
               IF fiber = "App"
               THEN (IF flag = "ChildDeletion" THEN [@ EXCEPT !["span"] = "none"] ELSE @)
               ELSE [@ EXCEPT ![fiber] = frame.tree],
           !.root.pendingPassiveEffects =
               IF fiber = "App" /\ frame.flags.passive THEN TRUE ELSE @]

\* an event handler (SyncLane) or other code outside of React (DefaultLane)
\* calls setState
SetStateInEvent ==
    /\ stack = <<>>
    /\ setStateCalls < MaxSetStateCalls
    /\ \E lane \in requestUpdateLane :
          LET m == scheduleUpdateOnFiber(
                       [Machine EXCEPT !.setStateCalls = @ + 1], lane)
              inBatch == /\ lane = SyncLane
                         /\ m.root.suspendedLanes \cap SyncLane = NoLanes
          IN  Becomes([m EXCEPT !.batch =
                  IF ~inBatch THEN @
                  ELSE IF @.open THEN [@ EXCEPT !.updates = @ + 1]
                  ELSE [open |-> TRUE, updates |-> 1, renders |-> 0,
                        commits |-> 0, suspended |-> FALSE]])

\* code outside of React calls setState inside startTransition:
\* requestUpdateLane gives TransitionLane
SetStateInTransition ==
    /\ stack = <<>>
    /\ setStateCalls < MaxSetStateCalls
    /\ Becomes(scheduleUpdateOnFiber(
                  [Machine EXCEPT !.setStateCalls = @ + 1], TransitionLane))

\* the microtask queued by scheduleMicroTask(flushSyncCallbacks)
RunMicroTask ==
    /\ stack = <<>>
    /\ microTasks > 0
    /\ Becomes(flushSyncCallbacks([Machine EXCEPT !.microTasks = @ - 1], TRUE))

\* one callback of the forEach in flushSyncCallbacks
FlushSyncCallback ==
    /\ stack # <<>>
    /\ Head(stack).op = "flush"
    /\ Head(stack).left > 0
    /\ \E flags \in FlagChoices(hostTree), throws \in BOOLEAN :
          /\ throws => ~thrown /\ flags = NoFlags
          /\ getNextLane(fiberRootNode) # SyncLane => flags = NoFlags /\ ~throws
          /\ Becomes(performSyncWorkOnRoot(
                        [Machine EXCEPT
                            !.stack[1].left = @ - 1,
                            !.syncCallbackCalls[Head(stack).total - Head(stack).left + 1] =
                                IF @ < 2 THEN @ + 1 ELSE @],
                        flags, throws))

\* the end of flushSyncCallbacks
FlushSyncDone ==
    /\ stack # <<>>
    /\ Head(stack).op = "flush"
    /\ Head(stack).left = 0
    /\ Becomes([Machine EXCEPT
                  !.isFlushingSyncQueue = FALSE,
                  !.stack = Tail(@),
                  !.batch = IF Head(stack).micro THEN [@ EXCEPT !.open = FALSE]
                            ELSE @])

\* commitMutationEffects reaches the next fiber with flags
CommitMutation ==
    /\ stack # <<>>
    /\ Head(stack).op = "commit"
    /\ Head(stack).phase = "mutation"
    /\ LET frame == Head(stack)
           fiber == Head(frame.muts)
           rest == Tail(frame.muts)
           m == [commitMutationEffectsOnFiber(Machine, frame, fiber) EXCEPT
                    !.stack[1].muts = rest,
                    !.stack[1].phase = IF rest = <<>> THEN phaseAfter("mutation")
                                       ELSE "mutation"]
       IN  \E cb \in CallbackLanes(Machine) :
              \* safelyDetachRef calls the callback ref of span
              /\ cb # NoLane => fiber = "span" /\ frame.flags.ref
              /\ Becomes(setStateInCallback(m, cb))

\* root.current = finishedWork
CommitSetCurrent ==
    /\ stack # <<>>
    /\ Head(stack).op = "commit"
    /\ Head(stack).phase = "current"
    /\ Becomes([Machine EXCEPT !.root.current = Head(stack).tree,
                               !.stack[1].phase = phaseAfter("current")])

\* commitLayoutEffects: safelyAttachRef calls the callback ref of span
CommitLayout ==
    /\ stack # <<>>
    /\ Head(stack).op = "commit"
    /\ Head(stack).phase = "layout"
    /\ \E cb \in CallbackLanes(Machine) :
          /\ cb # NoLane => Head(stack).flags.ref
          /\ Becomes(setStateInCallback(
                [Machine EXCEPT !.stack[1].phase = phaseAfter("layout"),
                                !.stack[1].layoutDone = Head(stack).flags.ref],
                cb))

\* the end of commitRoot
CommitFinish ==
    /\ stack # <<>>
    /\ Head(stack).op = "commit"
    /\ Head(stack).phase = "finish"
    /\ Becomes(ensureRootIsScheduled(
                  [Machine EXCEPT !.rootDoesHasPassiveEffects = FALSE,
                                  !.stack = Tail(@)]))

\* the scheduler runs the callback that commitRoot scheduled for the passive
\* effects
RunPassiveTask ==
    /\ stack = <<>>
    /\ microTasks = 0
    /\ \E t \in taskQueue, cb \in CallbackLanes(Machine) :
          /\ t.kind = "passive"
          /\ cb # NoLane => fiberRootNode.pendingPassiveEffects
          /\ Becomes(flushPassiveEffects(
                        [Machine EXCEPT !.taskQueue = @ \ {t}], cb))

\* the scheduler calls performConcurrentWorkOnRoot: the function up to the
\* return of flushPassiveEffects.  The task leaves the queue while it runs.
RunRenderTask ==
    /\ stack = <<>>
    /\ microTasks = 0
    /\ \E t \in taskQueue, cb \in CallbackLanes(Machine), didTimeout \in BOOLEAN :
          /\ t.kind = "render"
          /\ cb # NoLane => fiberRootNode.pendingPassiveEffects
          /\ Becomes(flushPassiveEffects(
                [Machine EXCEPT
                    !.taskQueue = @ \ {t},
                    !.stack = <<[Frame("concurrent") EXCEPT
                                    !.task = t.id,
                                    !.curCallback = fiberRootNode.callbackNode,
                                    !.didFlush = fiberRootNode.pendingPassiveEffects,
                                    !.didTimeout = didTimeout]>>],
                cb))

\* performConcurrentWorkOnRoot without the check of root.callbackNode that
\* follows flushPassiveEffects
performConcurrentWorkOnRootUnchecked(m, frame, stop, flags, throws) ==
    LET lane == getNextLane(m.root)
        curCallbackNode == m.root.callbackNode
        needSync == lane = SyncLane \/ frame.didTimeout
        r == renderRoot(m, lane, ~needSync, stop, flags, throws)
    IN  IF lane = NoLane THEN m
        ELSE IF commitsOn(r.exitStatus) THEN rootCompleted(r, lane)
        ELSE IF r.exitStatus = RootInComplete
        THEN (IF r.root.callbackNode # curCallbackNode THEN r
              ELSE [r EXCEPT !.taskQueue = @ \cup {[id |-> frame.task,
                                                    kind |-> "render"]}])
        ELSE rootDidNotComplete(r, lane)

\* workLoop.ts performConcurrentWorkOnRoot after flushPassiveEffects.  A
\* pass that yields returns the function again and the scheduler keeps the
\* task.
performConcurrentWorkOnRoot(m, frame, stop, flags, throws) ==
    LET lane == getNextLane(m.root)
        curCallbackNode == m.root.callbackNode
        needSync == lane = SyncLane \/ frame.didTimeout
        r == renderRoot(m, lane, ~needSync, stop, flags, throws)
    IN  IF frame.didFlush /\ m.root.callbackNode # frame.curCallback THEN m
        ELSE IF lane = NoLane THEN m
        ELSE IF commitsOn(r.exitStatus) THEN rootCompleted(r, lane)
        ELSE IF r.exitStatus = RootInComplete
        THEN (IF r.root.callbackNode # curCallbackNode THEN r
              ELSE [r EXCEPT !.taskQueue = @ \cup {[id |-> frame.task,
                                                    kind |-> "render"]}])
        ELSE rootDidNotComplete(r, lane)

ConcurrentWork ==
    /\ stack # <<>>
    /\ Head(stack).op = "concurrent"
    /\ LET frame == Head(stack)
           m == [Machine EXCEPT !.stack = Tail(@)]
           lane == getNextLane(fiberRootNode)
           renders == ~(frame.didFlush /\ fiberRootNode.callbackNode # frame.curCallback)
                      /\ lane # NoLane
           from == IF wipRootRenderLane # lane THEN "HostRoot" ELSE workInProgress
       IN  \E stop \in StopsFrom(from), throws \in BOOLEAN :
           \E flags \in FlagsFor(hostTree, from, stop) :
              /\ throws => /\ ~thrown
                            /\ from \in {"HostRoot", "App"}
                            /\ stop = "null"
                            /\ flags = NoFlags
              /\ (lane = SyncLane \/ frame.didTimeout) => stop = "null"
              /\ ~renders => stop = "null" /\ flags = NoFlags /\ ~throws
              /\ Becomes(performConcurrentWorkOnRoot(m, frame, stop, flags, throws))

\* fiberThrow.ts: the ping callback of attachPingListener
PingRoot ==
    /\ stack = <<>>
    /\ \E lane \in fiberRootNode.pingCache :
          Becomes(ensureRootIsScheduled(
              [Machine EXCEPT
                  !.root = markRootPinged(
                              markRootUpdated([@ EXCEPT !.pingCache = @ \ {lane}],
                                              lane), lane)]))

SNext ==
    \/ SetStateInEvent
    \/ RunMicroTask
    \/ FlushSyncCallback
    \/ FlushSyncDone
    \/ CommitMutation
    \/ CommitSetCurrent
    \/ CommitLayout
    \/ CommitFinish
    \/ RunPassiveTask
    \/ RunRenderTask
    \/ ConcurrentWork
    \/ PingRoot

\* The root after createRoot(container).render(<App/>) has been committed:
\* updateContainer runs at ImmediatePriority, so the mount was a SyncLane
\* pass of the microtask flush, whose callback stays in syncQueue; the
\* commit has collected the passive effect of App and scheduled its flush.
SInitMounted ==
    /\ fiberRootNode =
          [pendingLanes |-> NoLanes, suspendedLanes |-> NoLanes,
           pingedLanes |-> NoLanes, callbackNode |-> 0,
           callbackPriority |-> NoLane, current |-> "A",
           finishedWork |-> "null", finishedLane |-> NoLane,
           pendingPassiveEffects |-> TRUE, pingCache |-> {}]
    /\ workInProgress = "null"
    /\ wipRootRenderLane = NoLane
    /\ workInProgressRootExitStatus = RootCompleted
    /\ wipFlags = NoFlags
    /\ rootDoesHasPassiveEffects = FALSE
    /\ syncQueue = 1
    /\ isFlushingSyncQueue = FALSE
    /\ microTasks = 0
    /\ taskQueue = {[id |-> 1, kind |-> "passive"]}
    /\ stack = <<>>
    /\ hostTree = [f \in HostFibers |-> IF f = "div" THEN "A" ELSE "none"]
    /\ setStateCalls = 0
    /\ thrown = FALSE
    /\ syncCallbackCalls = <<1>>
    /\ unitsBegun = <<>>
    /\ batch = [open |-> FALSE, updates |-> 0, renders |-> 0, commits |-> 0,
                suspended |-> FALSE]

\* The steps of a root whose updates are all transitions and updates that
\* its effects and refs dispatch.
TNext ==
    \/ SetStateInTransition
    \/ FlushSyncCallback
    \/ FlushSyncDone
    \/ CommitMutation
    \/ CommitSetCurrent
    \/ CommitLayout
    \/ CommitFinish
    \/ RunPassiveTask
    \/ RunRenderTask
    \/ ConcurrentWork
    \/ PingRoot

\* ------------------------------------------------------------------------
\* Properties of SpecSched
\* ------------------------------------------------------------------------
InCommit == stack # <<>> /\ Head(stack).op = "commit"

\* C4: the host tree changes only in a step of the mutation part of a commit
\* whose render pass ended RootCompleted; and from the beginning of a commit
\* until its last flagged mutation, every step is the next mutation of that
\* same commit: no step of a render pass and no other commit comes between.
C4_CommitAtomicity ==
    [][/\ hostTree' # hostTree =>
             /\ InCommit
             /\ Head(stack).phase = "mutation"
             /\ Head(stack).exitStatus = RootCompleted
       /\ (InCommit /\ Head(stack).phase = "mutation") =>
             /\ Len(stack') = Len(stack)
             /\ Head(stack').op = "commit"
             /\ Head(stack').tree = Head(stack).tree
             /\ Head(stack').muts = Tail(Head(stack).muts)
             /\ UNCHANGED <<workInProgress, wipRootRenderLane,
                            workInProgressRootExitStatus, wipFlags>>
             /\ fiberRootNode'.current = fiberRootNode.current
      ]_vars

\* A commit has applied its two flagged mutations, after an earlier pass
\* ended RootDidNotComplete.
C4_Witness ==
    /\ InCommit
    /\ Head(stack).phase = "current"
    /\ Len(MutationFibers(Head(stack).flags)) >= 2
    /\ hostTree["div"] = Head(stack).tree
    /\ hostTree["span"] = Head(stack).tree
    /\ thrown

\* C6: in a commit, root.current is the finished tree only when no mutation
\* is left to do, and the refs are attached only when root.current is the
\* finished tree.
C6_CommitOrder ==
    \A i \in DOMAIN stack :
        stack[i].op = "commit" =>
            /\ fiberRootNode.current = stack[i].tree =>
                  stack[i].muts = <<>> /\ stack[i].phase # "mutation"
            /\ stack[i].layoutDone =>
                  fiberRootNode.current = stack[i].tree /\ stack[i].muts = <<>>

\* A commit with several mutations has attached the ref.
C6_Witness ==
    /\ InCommit
    /\ Head(stack).layoutDone
    /\ Len(MutationFibers(Head(stack).flags)) >= 2

\* C9 as stated: when the microtask flush of an event that dispatched
\* several SyncLane updates is over, exactly one render pass and exactly one
\* commit have run.
C9_OneRenderOneCommit ==
    (~batch.open /\ batch.updates >= 2) =>
        batch.renders = 1 /\ batch.commits = 1

\* C9 amended: when the microtask flush of an event that dispatched SyncLane
\* updates (one or several) to a root whose SyncLane is not suspended is
\* over, exactly one render pass has run; one commit has run when that pass
\* ended RootCompleted and none when it ended RootDidNotComplete.
C9_OneRenderCommitIfCompleted ==
    (~batch.open /\ batch.updates >= 1) =>
        /\ batch.renders = 1
        /\ batch.commits = (IF batch.suspended THEN 0 ELSE 1)

\* The flush of an event with several SyncLane updates is over, with a
\* commit whose mutations were applied.
C9_Witness ==
    /\ ~batch.open
    /\ batch.updates >= 2
    /\ batch.commits = 1
    /\ stack = <<>>
    /\ hostTree["span"] # "none"

\* While the batch is open its microtask is queued or running.
BatchIsFlushed ==
    batch.open => microTasks > 0 \/ (stack # <<>> /\ stack[Len(stack)].op = "flush"
                                     /\ stack[Len(stack)].micro)

\* C14: the step in which a render pass suspends with no Suspense boundary
\* (App throws a thenable, the pass unwinds to the root) leaves the exit
\* status RootDidNotComplete, begins no commit, leaves root.current and the
\* host tree as they were, and leaves the render lane in root.suspendedLanes.
C14_DidNotCompleteIsDropped ==
    [][(thrown' /\ ~thrown) =>
          /\ workInProgressRootExitStatus' = RootDidNotComplete
          /\ workInProgress' = "null"
          /\ \A i \in DOMAIN stack' : stack'[i].op # "commit"
          /\ fiberRootNode'.current = fiberRootNode.current
          /\ fiberRootNode'.finishedWork = "null"
          /\ hostTree' = hostTree
          /\ fiberRootNode'.pingCache # {}
          /\ \A lane \in fiberRootNode'.pingCache :
                isSubsetOfLanes(fiberRootNode'.suspendedLanes, lane)
      ]_vars

\* A pass over a tree with a mounted span has ended RootDidNotComplete and
\* its driver has returned.
C14_Witness ==
    /\ thrown
    /\ workInProgressRootExitStatus = RootDidNotComplete
    /\ fiberRootNode.suspendedLanes # NoLanes
    /\ hostTree["span"] # "none"
    /\ stack = <<>>

InSchedulerRender == stack # <<>> /\ stack[Len(stack)].op = "concurrent"

\* C16 as stated: while the scheduler runs render work of the root, no
\* SyncLane update is waiting for its render and commit.
C16_SyncBeforeScheduler ==
    InSchedulerRender => ~isSubsetOfLanes(fiberRootNode.pendingLanes, SyncLane)

\* C16 amended: while the scheduler runs render work of the root, SyncLane is
\* pending only if it is suspended (its pass ended RootDidNotComplete and no
\* commit has reset root.suspendedLanes since); and the flush of an event's
\* SyncLane updates to a root whose SyncLane is not suspended is over.
C16_UnsuspendedSyncBeforeScheduler ==
    InSchedulerRender =>
        /\ isSubsetOfLanes(fiberRootNode.pendingLanes, SyncLane) =>
               isSubsetOfLanes(fiberRootNode.suspendedLanes, SyncLane)
        /\ ~batch.open

\* A SyncLane update has been dispatched while a DefaultLane pass was paused:
\* the task of the pass is cancelled and the microtask is queued.
C16_Witness ==
    /\ batch.open
    /\ microTasks > 0
    /\ workInProgress # "null"
    /\ wipRootRenderLane = DefaultLane
    /\ taskQueue = {}
    /\ fiberRootNode.suspendedLanes = NoLanes

\* The next step is a render pass, begun or continued: a callback of the
\* sync queue runs performSyncWorkOnRoot on a root whose next lane is
\* SyncLane, or performConcurrentWorkOnRoot is past its check of
\* root.callbackNode on a root that has a next lane.
RenderPassIsNext ==
    /\ stack # <<>>
    /\ \/ /\ Head(stack).op = "flush"
          /\ Head(stack).left > 0
          /\ getNextLane(fiberRootNode) = SyncLane
       \/ /\ Head(stack).op = "concurrent"
          /\ ~(Head(stack).didFlush
                /\ fiberRootNode.callbackNode # Head(stack).curCallback)
          /\ getNextLane(fiberRootNode) # NoLane

\* C23: when performSyncWorkOnRoot or performConcurrentWorkOnRoot computes
\* the lane to render and starts or continues the render pass, the root has
\* no pending passive effects: they have been flushed.
C23_PassiveEffectsFlushedFirst ==
    RenderPassIsNext => ~fiberRootNode.pendingPassiveEffects

\* C24: when performConcurrentWorkOnRoot calls renderRoot for the lane of
\* the pass in progress (a time-sliced pass that has yielded), the begin
\* steps of the pass go on at the fiber the work loop stopped at, and no
\* fiber of the pass gets a second begin step.
C24_ResumesWhereItYielded ==
    [][(/\ RenderPassIsNext
        /\ Head(stack).op = "concurrent"
        /\ wipRootRenderLane = getNextLane(fiberRootNode))
       => LET before == BegunFibers(unitsBegun)
              after == BegunFibers(unitsBegun')
          IN  /\ Len(after) >= Len(before)
              /\ SubSeq(after, 1, Len(before)) = before
              /\ Len(after) > Len(before) =>
                     after[Len(before) + 1] = workInProgress
              /\ \A i, j \in DOMAIN after : i # j => after[i] # after[j]
      ]_vars

\* A pass has yielded at App, has gone on with the begin step of App in a
\* second call of renderRoot and has yielded at div.
C24_Witness ==
    /\ unitsBegun = <<"HostRoot", "yield", "App", "yield">>
    /\ workInProgress = "div"
    /\ wipRootRenderLane # NoLane
    /\ workInProgressRootExitStatus = RootInComplete

\* the callbacks of the scheduler that render the root
RenderTasks(tasks) == {t \in tasks : t.kind = "render"}

\* What a call of ensureRootIsScheduled on the root in its present state
\* leaves.  Without a next lane: no task of the scheduler renders the root,
\* and callbackNode and callbackPriority are cleared.  With the lane that is
\* already scheduled: nothing changes.  Otherwise: the task callbackNode
\* identified is cancelled and one callback is scheduled, a callback of the
\* sync queue with its microtask for SyncLane, a task of the scheduler that
\* callbackNode identifies for another lane.
EnsureRootIsScheduledLeaves ==
    LET m == Machine
        r == ensureRootIsScheduled(m)
        lane == getNextLane(m.root)
    IN  /\ lane = NoLane =>
              /\ RenderTasks(r.taskQueue) = {}
              /\ r.root.callbackNode = 0
              /\ r.root.callbackPriority = NoLane
              /\ r.syncQueue = m.syncQueue
              /\ r.microTasks = m.microTasks
        /\ (lane # NoLane /\ lane = m.root.callbackPriority) => r = m
        /\ (lane # NoLane /\ lane # m.root.callbackPriority) =>
              /\ r.root.callbackPriority = lane
              /\ \A t \in m.taskQueue :
                    t \in r.taskQueue <=> t.id # m.root.callbackNode
              /\ IF lane = SyncLane
                 THEN /\ r.syncQueue = m.syncQueue + 1
                      /\ r.microTasks = m.microTasks + 1
                      /\ r.taskQueue \subseteq m.taskQueue
                      /\ r.root.callbackNode = 0
                 ELSE /\ r.syncQueue = m.syncQueue
                      /\ r.microTasks = m.microTasks
                      /\ Cardinality(r.taskQueue \ m.taskQueue) = 1
                      /\ \A t \in r.taskQueue \ m.taskQueue :
                            t.kind = "render" /\ t.id = r.root.callbackNode

\* C25 as stated: ensureRootIsScheduled leaves what is said above, and the
\* root never has two render callbacks outstanding, a callback being a task
\* of the scheduler that renders the root or the microtask that flushes the
\* sync queue.
C25_OneOutstandingCallback ==
    /\ EnsureRootIsScheduledLeaves
    /\ Cardinality(RenderTasks(taskQueue)) + microTasks <= 1

\* C25 amended: ensureRootIsScheduled leaves what is said above; the
\* scheduler never holds two tasks that render the root, and the one it
\* holds is the one callbackNode identifies; a microtask that flushes the
\* sync queue is not cancelled, at most one is outstanding, and the
\* callback of the sync queue that runs when the next lane is not SyncLane
\* leaves the pass in progress, root.current and the host tree as they are
\* and begins no commit.
C25_OneSchedulerTask ==
    /\ EnsureRootIsScheduledLeaves
    /\ Cardinality(RenderTasks(taskQueue)) <= 1
    /\ \A t \in RenderTasks(taskQueue) : t.id = fiberRootNode.callbackNode
    /\ microTasks <= 1
    /\ getNextLane(fiberRootNode) # SyncLane =>
          \A flags \in FlagChoices(hostTree), throws \in BOOLEAN :
              LET r == performSyncWorkOnRoot(Machine, flags, throws)
              IN  /\ r.workInProgress = workInProgress
                  /\ r.wipRootRenderLane = wipRootRenderLane
                  /\ r.wipFlags = wipFlags
                  /\ r.root.current = fiberRootNode.current
                  /\ r.hostTree = hostTree
                  /\ r.stack = stack

\* The microtask for a pinged SyncLane is outstanding, and a DefaultLane
\* update has since been given a task of the scheduler.
C25_Witness ==
    /\ microTasks = 1
    /\ Cardinality(RenderTasks(taskQueue)) = 1
    /\ fiberRootNode.callbackPriority = DefaultLane
    /\ isSubsetOfLanes(fiberRootNode.pingedLanes, SyncLane)

\* C26: whenever the root has a next lane and neither a render pass nor a
\* commit nor a flush is running, a callback that will render the root is
\* outstanding: the microtask that flushes the sync queue, or a task of the
\* scheduler that renders the root.
C26_SelectableLaneHasCallback ==
    (stack = <<>> /\ getNextLane(fiberRootNode) # NoLane) =>
        \/ microTasks > 0 /\ syncQueue > 0
        \/ RenderTasks(taskQueue) # {}

\* C27: no callback passed to scheduleSyncCallback has been invoked more
\* than once, whatever flushes have run.
C27_SyncCallbackInvokedOnce ==
    \A i \in DOMAIN syncCallbackCalls : syncCallbackCalls[i] <= 1

\* The higher-priority SyncLane waits suspended without a ping while the
\* lower-priority DefaultLane is pending and not suspended.
LowerLaneWaits ==
    /\ SyncLane \subseteq fiberRootNode.pendingLanes
    /\ SyncLane \subseteq fiberRootNode.suspendedLanes
    /\ fiberRootNode.pingedLanes \cap SyncLane = NoLanes
    /\ DefaultLane \subseteq fiberRootNode.pendingLanes
    /\ fiberRootNode.suspendedLanes \cap DefaultLane = NoLanes

\* the commit of a pass that rendered DefaultLane has taken the lane out of
\* root.pendingLanes, or the suspended SyncLane has been pinged
LowerLaneCommitted ==
    \/ fiberRootNode.pendingLanes \cap DefaultLane = NoLanes
    \/ SyncLane \subseteq fiberRootNode.pingedLanes

PingedLanes(fiberRoot) ==
    fiberRoot.pendingLanes \cap fiberRoot.suspendedLanes \cap fiberRoot.pingedLanes

\* C29 as stated: when a suspended lane has been pinged and a lane of lower
\* priority is pending too, the next lane of the root is the pinged lane.
C29_PingedLaneSelectedFirst ==
    LET pinged == getHighestPriorityLane(PingedLanes(fiberRootNode))
    IN  (/\ pinged # NoLane
         /\ \E low \in fiberRootNode.pendingLanes : \A p \in pinged : low > p)
            => getNextLane(fiberRootNode) = pinged

\* C29, amended: while a pinged lane waits, the next lane of the root is the
\* highest-priority pending lane that is not suspended, of whatever
\* priority; the highest-priority pinged lane is the next lane only when
\* every pending lane is suspended.  A render pass that starts renders that
\* lane.
C29_PingedLaneIsFallback ==
    [][LET unsuspended == fiberRootNode.pendingLanes \ fiberRootNode.suspendedLanes
           expected == IF unsuspended # NoLanes
                       THEN getHighestPriorityLane(unsuspended)
                       ELSE getHighestPriorityLane(PingedLanes(fiberRootNode))
       IN  PingedLanes(fiberRootNode) # NoLanes =>
              /\ getNextLane(fiberRootNode) = expected
              /\ (wipRootRenderLane' # wipRootRenderLane /\ wipRootRenderLane' # NoLane)
                    => wipRootRenderLane' = expected]_vars

\* a pass renders DefaultLane while the pinged SyncLane waits
C29_Witness ==
    /\ PingedLanes(fiberRootNode) = SyncLane
    /\ wipRootRenderLane = DefaultLane
    /\ workInProgress # "null"

\* C32: a pass that suspends leaves a ping listener for its lane on the
\* thenable, and when the thenable settles the ping of a lane puts the lane
\* in root.pendingLanes, marks it pinged if it is suspended, and calls
\* ensureRootIsScheduled, after which root.callbackPriority is the next lane
\* of the root.
C32_SettledThenablePings ==
    [][/\ (thrown' /\ ~thrown) =>
             getNextLane(fiberRootNode) \in fiberRootNode'.pingCache
       /\ \A lane \in fiberRootNode.pingCache \ fiberRootNode'.pingCache :
             /\ lane \subseteq fiberRootNode'.pendingLanes
             /\ lane \subseteq fiberRootNode.suspendedLanes =>
                   lane \subseteq fiberRootNode'.pingedLanes
             /\ fiberRootNode'.callbackPriority = getNextLane(fiberRootNode')]_vars

\* the ping of the suspended SyncLane has run and the lane is scheduled
C32_Witness ==
    /\ thrown
    /\ fiberRootNode.pingCache = {}
    /\ SyncLane \subseteq fiberRootNode.pingedLanes
    /\ fiberRootNode.callbackPriority = SyncLane
    /\ microTasks > 0

\* The step runs a render pass to its end and begins the commit of the tree
\* it rendered: commitRoot either goes on to its mutation part or, without
\* effects, swaps the trees at once.
CommitBegins ==
    /\ RenderPassIsNext
    /\ \/ stack' # <<>> /\ Head(stack').op = "commit"
       \/ fiberRootNode'.current # fiberRootNode.current

\* C34: the step in which the commit of a tree rendered at lane L begins
\* takes exactly L out of root.pendingLanes, every other pending lane stays
\* pending, and root.suspendedLanes and root.pingedLanes are empty after it.
C34_CommitFinishesItsLane ==
    [][CommitBegins =>
          LET lane == getNextLane(fiberRootNode)
          IN  /\ fiberRootNode'.pendingLanes = fiberRootNode.pendingLanes \ lane
              /\ fiberRootNode'.suspendedLanes = NoLanes
              /\ fiberRootNode'.pingedLanes = NoLanes
              /\ stack' # <<>> /\ Head(stack').op = "commit" =>
                     Head(stack').lane = lane]_vars

\* the commit of a SyncLane pass has begun on a root that had a suspended
\* lane; DefaultLane is still pending
C34_Witness ==
    /\ InCommit
    /\ Head(stack).phase = "mutation"
    /\ Head(stack).muts = MutationFibers(Head(stack).flags)
    /\ Head(stack).lane = SyncLane
    /\ fiberRootNode.pendingLanes = DefaultLane
    /\ fiberRootNode.suspendedLanes = NoLanes
    /\ thrown

\* The last call of renderRoot returned RootCompleted or RootDidNotComplete:
\* the driver has gone on to commitRoot or has marked the lane suspended,
\* and no pass has begun since.
PassHasExited ==
    workInProgressRootExitStatus \in {RootCompleted, RootDidNotComplete}

\* the lanes a pass can be called for
RenderLanes == {SyncLane, InputContinuousLane, DefaultLane, TransitionLane}

\* C35: after a pass has been committed or has ended as did not complete, a
\* call of renderRoot for any lane, the lane of a pass interrupted earlier
\* included, does what a call that begins with prepareFreshStack does: it
\* starts at the HostRoot of the tree that is current now and goes on with
\* no fiber of an earlier pass, whether the work loop then yields at App or
\* runs to the end of the tree.
C35_NoStaleResume ==
    PassHasExited =>
        /\ wipRootRenderLane = NoLane
        /\ \A lane \in RenderLanes, stop \in {"App", "null"} :
              renderRoot(Machine, lane, stop # "null", stop, NoFlags, FALSE)
                  = renderRootFromTheRoot(Machine, lane, stop # "null", stop,
                                          NoFlags, FALSE)

\* a SyncLane pass has ended as did not complete, and
\* performConcurrentWorkOnRoot is about to render DefaultLane
C35_Witness ==
    /\ workInProgressRootExitStatus = RootDidNotComplete
    /\ thrown
    /\ RenderPassIsNext
    /\ Head(stack).op = "concurrent"
    /\ getNextLane(fiberRootNode) = DefaultLane
    /\ SyncLane \subseteq fiberRootNode.suspendedLanes

\* the callbacks of the scheduler that flush the passive effects
PassiveTasks(tasks) == {t \in tasks : t.kind = "passive"}

\* C36: the scheduler never holds two callbacks that flush the passive
\* effects of the root: while one is scheduled and has not run, a commit of
\* a tree with passive effects schedules no other.
C36_OnePassiveFlushOutstanding ==
    Cardinality(PassiveTasks(taskQueue)) <= 1

\* C40: in every state of the root, the pinged lanes are suspended lanes and
\* the suspended lanes are pending lanes.
C40_LaneSetsNested ==
    /\ fiberRootNode.pingedLanes \subseteq fiberRootNode.suspendedLanes
    /\ fiberRootNode.suspendedLanes \subseteq fiberRootNode.pendingLanes

\* SyncLane is pending, suspended and pinged while DefaultLane is pending
\* and not suspended
C40_Witness ==
    /\ fiberRootNode.pendingLanes = SyncLane \cup DefaultLane
    /\ fiberRootNode.suspendedLanes = SyncLane
    /\ fiberRootNode.pingedLanes = SyncLane

\* ========================================================================
\* SpecList: reconciliation of the children of one host parent and the
\* commit of the result (childFibers.ts, commitWork.ts, hostConfig.ts).
\*
\* A child is a keyed element of type "span" (a host component) or "Wrap" (a
\* function component that renders one host component p).  The host
\* instance of a span with key k is <<k, "span">>, the instance of the p
\* below the Wrap with key k is <<k, "Wrap">>.
\* ========================================================================
Keys == 1..MaxKeys

Types == {"span", "Wrap"}

\* arrays of keyed elements, the keys unique in the array
KeyedArrays ==
    UNION {{a \in [1..n -> [key : Keys, type : Types]] :
               \A i, j \in 1..n : a[i].key = a[j].key => i = j} : n \in 0..MaxChildren}

\* stateNode of a host fiber, of the host child of a function component
stateNode(fiber) == <<fiber.key, fiber.type>>

NoInstance == <<0, "null">>

LInit ==
    /\ currentFirstChild = <<>>
    /\ newChild = <<>>
    /\ firstNewFiber = <<>>
    /\ deletions = <<>>
    /\ reconciled = FALSE
    /\ container = <<>>

\* position in the current chain of the fiber that existingChildren holds
\* for the key, 0 when it holds none
existingChild(current, existingChildren, key) ==
    IF \E a \in existingChildren : current[a].key = key
    THEN CHOOSE a \in existingChildren : current[a].key = key
    ELSE 0

\* updateFromMap with a reuse that looks at the key only
updateFromMapByKey(current, existingChildren, element) ==
    LET before == existingChild(current, existingChildren, element.key)
    IN  IF before # 0
        THEN [key |-> element.key, type |-> current[before].type, alternate |-> before]
        ELSE [key |-> element.key, type |-> element.type, alternate |-> 0]

\* childFibers.ts updateFromMap for an element: useFiber(before) when the
\* map has a fiber of the key and of the type, else createFiberFromElement
updateFromMap(current, existingChildren, element) ==
    LET before == existingChild(current, existingChildren, element.key)
    IN  IF before # 0 /\ current[before].type = element.type
        THEN [key |-> element.key, type |-> element.type, alternate |-> before]
        ELSE [key |-> element.key, type |-> element.type, alternate |-> 0]

\* A loop body that flags every reused child whose position has changed.
reconcileChildByPosition(acc, current, elements, i) ==
    LET newFiber == updateFromMap(current, acc.existingChildren, elements[i + 1])
        oldIndex == current[newFiber.alternate].index
        moved == newFiber.alternate # 0 /\ oldIndex # i
    IN  [existingChildren |-> acc.existingChildren \ {newFiber.alternate},
         lastPlacedIndex |-> acc.lastPlacedIndex,
         chain |-> Append(acc.chain,
                          [key |-> newFiber.key, type |-> newFiber.type,
                           index |-> i, alternate |-> newFiber.alternate,
                           placement |-> newFiber.alternate = 0 \/ moved])]

\* the body of the for loop of reconcileChildrenArray, for newChild[i + 1]
\* (i is the index of the source, from 0)
reconcileChild(acc, current, elements, i) ==
    LET newFiber == updateFromMap(current, acc.existingChildren, elements[i + 1])
        oldIndex == current[newFiber.alternate].index
        moved == newFiber.alternate # 0 /\ oldIndex < acc.lastPlacedIndex
    IN  [existingChildren |-> acc.existingChildren \ {newFiber.alternate},
         lastPlacedIndex |-> IF newFiber.alternate # 0 /\ ~moved THEN oldIndex
                             ELSE acc.lastPlacedIndex,
         chain |-> Append(acc.chain,
                          [key |-> newFiber.key, type |-> newFiber.type,
                           index |-> i, alternate |-> newFiber.alternate,
                           placement |-> newFiber.alternate = 0 \/ moved])]

RECURSIVE reconcileChildren(_, _, _, _)
reconcileChildren(acc, current, elements, i) ==
    IF i >= Len(elements) THEN acc
    ELSE reconcileChildren(reconcileChild(acc, current, elements, i),
                           current, elements, i + 1)

\* the fibers at the positions of set, in the order of the chain
RECURSIVE inChainOrder(_, _, _)
inChainOrder(current, set, a) ==
    IF a > Len(current) THEN <<>>
    ELSE (IF a \in set THEN <<current[a]>> ELSE <<>>)
         \o inChainOrder(current, set, a + 1)

\* childFibers.ts reconcileChildrenArray
reconcileChildrenArray(current, elements) ==
    LET r == reconcileChildren([existingChildren |-> DOMAIN current,
                                lastPlacedIndex |-> 0, chain |-> <<>>],
                               current, elements, 0)
    IN  [firstNewFiber |-> r.chain,
         deletions |-> inChainOrder(current, r.existingChildren, 1)]

\* commitWork.ts getHostSibling of the fiber at position i of the chain: the
\* instance of the first host node after it that is not itself to be placed
RECURSIVE getHostSibling(_, _)
getHostSibling(chain, i) ==
    IF i + 1 > Len(chain) THEN NoInstance
    ELSE IF chain[i + 1].placement THEN getHostSibling(chain, i + 1)
    ELSE stateNode(chain[i + 1])

removeChild(children, child) == SelectSeq(children, LAMBDA x : x # child)

\* hostConfig.ts appendChildToContainer: Node.appendChild
appendChildToContainer(children, child) == Append(removeChild(children, child), child)

RECURSIVE insertBefore(_, _, _)
insertBefore(children, child, before) ==
    IF children = <<>> THEN <<>>
    ELSE IF Head(children) = before THEN <<child>> \o children
    ELSE <<Head(children)>> \o insertBefore(Tail(children), child, before)

\* hostConfig.ts insertChildToContainer: Node.insertBefore
insertChildToContainer(children, child, before) ==
    IF \E k \in DOMAIN children : children[k] = before
    THEN insertBefore(removeChild(children, child), child, before)
    ELSE children

\* commitWork.ts insertOrAppendPlacementNodeIntoContainer: a host fiber is
\* inserted before the sibling or appended; for another fiber the function
\* calls itself for each child, without the sibling
insertOrAppendPlacementNodeIntoContainer(children, fiber, before) ==
    IF fiber.type = "span"
    THEN (IF before # NoInstance
          THEN insertChildToContainer(children, stateNode(fiber), before)
          ELSE appendChildToContainer(children, stateNode(fiber)))
    ELSE appendChildToContainer(children, stateNode(fiber))

\* commitWork.ts commitPlacement of the fiber at position i
commitPlacement(children, chain, i) ==
    insertOrAppendPlacementNodeIntoContainer(children, chain[i],
                                             getHostSibling(chain, i))

\* commitMutationEffects reaches the children in the order of the chain
RECURSIVE commitPlacements(_, _, _)
commitPlacements(children, chain, i) ==
    IF i > Len(chain) THEN children
    ELSE commitPlacements(
             IF chain[i].placement THEN commitPlacement(children, chain, i)
             ELSE children,
             [chain EXCEPT ![i].placement = FALSE], i + 1)

\* commitWork.ts commitDeletion for each fiber of deletions
RECURSIVE commitDeletions(_, _)
commitDeletions(children, dels) ==
    IF dels = <<>> THEN children
    ELSE commitDeletions(removeChild(children, stateNode(Head(dels))), Tail(dels))

\* The render of the parent: reconcileChildFibers with an array
ReconcileChildren ==
    /\ ~reconciled
    /\ \E elements \in KeyedArrays :
          LET r == reconcileChildrenArray(currentFirstChild, elements)
          IN  /\ newChild' = elements
              /\ firstNewFiber' = r.firstNewFiber
              /\ deletions' = r.deletions
    /\ reconciled' = TRUE
    /\ UNCHANGED <<currentFirstChild, container>>
    /\ UNCHANGED <<qvars, svars, evars, nvars>>

\* The commit: commitMutationEffects on the children and then on the
\* parent (its ChildDeletion), and the work-in-progress tree becomes current
CommitChildren ==
    /\ reconciled
    /\ container' = commitDeletions(commitPlacements(container, firstNewFiber, 1),
                                    deletions)
    /\ currentFirstChild' = [i \in DOMAIN firstNewFiber |->
                                [key |-> firstNewFiber[i].key,
                                 type |-> firstNewFiber[i].type,
                                 index |-> firstNewFiber[i].index]]
    /\ firstNewFiber' = <<>>
    /\ deletions' = <<>>
    /\ reconciled' = FALSE
    /\ UNCHANGED newChild
    /\ UNCHANGED <<qvars, svars, evars, nvars>>

LNext ==
    \/ ReconcileChildren
    \/ CommitChildren

\* ------------------------------------------------------------------------
\* Properties of SpecList
\* ------------------------------------------------------------------------
KeysOf(chain) == [i \in DOMAIN chain |-> chain[i].key]

C5_HostProjection ==
    ~reconciled =>
        container = [i \in DOMAIN currentFirstChild |->
                        stateNode(currentFirstChild[i])]

\* ========================================================================
\* SpecEffect: the useEffect hooks of two function components, the
\* collection of their effects by the commit and the flush of the passive
\* effects (fiberHooks.ts, commitWork.ts, workLoop.ts).
\*
\* App is always mounted and renders Child or nothing; each calls useEffect
\* once, with a create that returns a destroy.  An Effect object is known by
\* its position in effects; the destroy returned by the create of Effect e
\* is written e, undefined is 0.
\* ========================================================================
Deps == {0, 1}

EInit ==
    /\ effects = <<[comp |-> "App", hasEffect |-> TRUE, destroy |-> 1, deps |-> 0]>>
    /\ memoizedEffect = [c \in {"App", "Child"} |-> IF c = "App" THEN 1 ELSE 0]
    /\ pendingPassiveEffects = [unmount |-> <<>>, update |-> <<>>]
    /\ flushLog = <<>>
    /\ live = [c \in {"App", "Child"} |-> IF c = "App" THEN 1 ELSE 0]
    /\ skipped = {}
    /\ passes = 0

\* The part of the state that the functions below work on.
EffectState ==
    [effects |-> effects, memoizedEffect |-> memoizedEffect,
     pending |-> pendingPassiveEffects, log |-> <<>>]

\* fiberHooks.ts pushEffect: a new Effect object
pushEffect(comp, hasEffect, destroy, deps) ==
    [comp |-> comp, hasEffect |-> hasEffect, destroy |-> destroy, deps |-> deps]

\* fiberHooks.ts mountEffect
mountEffect(comp, nextDeps) == pushEffect(comp, TRUE, 0, nextDeps)

\* fiberHooks.ts areHookInputsEqual, for deps of one value
areHookInputsEqual(nextDeps, prevDeps) == nextDeps = prevDeps

\* fiberHooks.ts updateEffect: the destroy is read from the Effect of the
\* current hook when the component renders
updateEffect(prevEffect, nextDeps) ==
    pushEffect(prevEffect.comp,
               ~areHookInputsEqual(nextDeps, prevEffect.deps),
               prevEffect.destroy,
               nextDeps)

\* A render pass and its commit, up to the end of the mutation part.
\* childMounted: App renders Child; deps: the deps of the two effects.
\* commitMutationEffects reaches Child before App; commitPassiveEffect puts
\* the effect list of a flagged fiber on update, commitDeletion puts the
\* list of the deleted Child on unmount.
renderAndCommit(st, childMounted, deps) ==
    LET old == st.memoizedEffect
        appEffect == updateEffect(st.effects[old["App"]], deps["App"])
        childEffect == IF old["Child"] = 0 THEN mountEffect("Child", deps["Child"])
                       ELSE updateEffect(st.effects[old["Child"]], deps["Child"])
        n == Len(st.effects)
        flagged == (IF childMounted /\ childEffect.hasEffect THEN <<n + 2>> ELSE <<>>)
                   \o (IF appEffect.hasEffect THEN <<n + 1>> ELSE <<>>)
        deleted == IF ~childMounted /\ old["Child"] # 0 THEN <<old["Child"]>> ELSE <<>>
    IN  [st EXCEPT
            !.effects = IF childMounted THEN @ \o <<appEffect, childEffect>>
                        ELSE Append(@, appEffect),
            !.memoizedEffect = [c \in {"App", "Child"} |->
                                   IF c = "App" THEN n + 1
                                   ELSE IF childMounted THEN n + 2 ELSE 0],
            !.pending.unmount = @ \o deleted,
            !.pending.update = @ \o flagged]

\* commitWork.ts commitHookEffectListUnmount(Passive, effect)
commitHookEffectListUnmount(st, e) ==
    [st EXCEPT
        !.log = IF st.effects[e].destroy # 0
                THEN Append(@, [call |-> "destroy", fn |-> st.effects[e].destroy,
                                comp |-> st.effects[e].comp])
                ELSE @,
        !.effects[e].hasEffect = FALSE]

\* commitWork.ts commitHookEffectListDestroy(Passive | HookHasEffect, effect)
commitHookEffectListDestroy(st, e) ==
    IF st.effects[e].hasEffect /\ st.effects[e].destroy # 0
    THEN [st EXCEPT !.log = Append(@, [call |-> "destroy",
                                       fn |-> st.effects[e].destroy,
                                       comp |-> st.effects[e].comp])]
    ELSE st

\* commitWork.ts commitHookEffectListCreate(Passive | HookHasEffect, effect)
commitHookEffectListCreate(st, e) ==
    IF st.effects[e].hasEffect
    THEN [st EXCEPT !.log = Append(@, [call |-> "create", fn |-> e,
                                       comp |-> st.effects[e].comp]),
                    !.effects[e].destroy = e]
    ELSE st

RECURSIVE forEachUnmount(_, _)
forEachUnmount(st, list) ==
    IF list = <<>> THEN st
    ELSE forEachUnmount(commitHookEffectListUnmount(st, Head(list)), Tail(list))

RECURSIVE forEachDestroy(_, _)
forEachDestroy(st, list) ==
    IF list = <<>> THEN st
    ELSE forEachDestroy(commitHookEffectListDestroy(st, Head(list)), Tail(list))

RECURSIVE forEachCreate(_, _)
forEachCreate(st, list) ==
    IF list = <<>> THEN st
    ELSE forEachCreate(commitHookEffectListCreate(st, Head(list)), Tail(list))

RECURSIVE forEachDestroyCreate(_, _)
forEachDestroyCreate(st, list) ==
    IF list = <<>> THEN st
    ELSE forEachDestroyCreate(
             commitHookEffectListCreate(commitHookEffectListDestroy(st, Head(list)),
                                        Head(list)),
             Tail(list))

\* a flush that runs the destroy and the create of one effect list after
\* the other
flushEffectByEffect(st) ==
    [forEachDestroyCreate(forEachUnmount([st EXCEPT !.log = <<>>], st.pending.unmount),
                          st.pending.update)
        EXCEPT !.pending = [unmount |-> <<>>, update |-> <<>>]]

\* workLoop.ts flushPassiveEffects(root.pendingPassiveEffects)
flushPendingPassiveEffects(st) ==
    [forEachCreate(
         forEachDestroy(forEachUnmount([st EXCEPT !.log = <<>>], st.pending.unmount),
                        st.pending.update),
         st.pending.update)
        EXCEPT !.pending = [unmount |-> <<>>, update |-> <<>>]]

\* history: the callbacks of log, applied to the record of the destroys that
\* are owed
RECURSIVE noteCalls(_, _)
noteCalls(h, log) ==
    IF log = <<>> THEN h
    ELSE LET c == Head(log)
         IN  noteCalls(
                 IF c.call = "destroy"
                 THEN [h EXCEPT !.live[c.comp] = IF @ = c.fn THEN 0 ELSE @]
                 ELSE [live |-> [h.live EXCEPT ![c.comp] = c.fn],
                       skipped |-> IF h.live[c.comp] # 0
                                   THEN h.skipped \cup {c.comp} ELSE h.skipped],
                 Tail(log))

EffectBecomes(st, didFlush) ==
    /\ effects' = st.effects
    /\ memoizedEffect' = st.memoizedEffect
    /\ pendingPassiveEffects' = st.pending
    /\ flushLog' = IF didFlush THEN st.log ELSE flushLog
    /\ LET h == noteCalls([live |-> live, skipped |-> skipped], st.log)
       IN  \* a Child that is mounted anew has a new hook
           /\ live' = [h.live EXCEPT !["Child"] =
                          IF memoizedEffect["Child"] = 0 THEN 0 ELSE @]
           /\ skipped' = h.skipped
    /\ UNCHANGED <<qvars, svars, lvars, nvars>>

DepsChoices == [{"App", "Child"} -> Deps]

\* performSyncWorkOnRoot: a render pass and its commit
SyncWorkOnRoot ==
    /\ passes < MaxPasses
    /\ passes' = passes + 1
    /\ \E childMounted \in BOOLEAN, deps \in DepsChoices :
          /\ ~childMounted => deps["Child"] = 0
          /\ EffectBecomes(renderAndCommit(EffectState, childMounted, deps), FALSE)

\* performConcurrentWorkOnRoot: flushPassiveEffects, then a render pass and
\* its commit
ConcurrentWorkOnRoot ==
    /\ passes < MaxPasses
    /\ passes' = passes + 1
    /\ \E childMounted \in BOOLEAN, deps \in DepsChoices :
          /\ ~childMounted => deps["Child"] = 0
          /\ EffectBecomes(renderAndCommit(flushPendingPassiveEffects(EffectState),
                                           childMounted, deps), TRUE)

\* the scheduler runs the callback that commitRoot scheduled
FlushPassiveEffectsTask ==
    /\ pendingPassiveEffects # [unmount |-> <<>>, update |-> <<>>]
    /\ EffectBecomes(flushPendingPassiveEffects(EffectState), TRUE)
    /\ UNCHANGED passes

ENext ==
    \/ SyncWorkOnRoot
    \/ ConcurrentWorkOnRoot
    \/ FlushPassiveEffectsTask

\* ------------------------------------------------------------------------
\* Properties of SpecEffect
\* ------------------------------------------------------------------------
\* C7: in a flush, no create callback is invoked before a destroy callback.
C7_DestroysBeforeCreates ==
    \A i, j \in DOMAIN flushLog :
        i < j => ~(flushLog[i].call = "create" /\ flushLog[j].call = "destroy")

\* A flush that invoked the destroy of the unmounted Child, the destroy of
\* an effect of App and two creates.
C7_Witness ==
    /\ \E i \in DOMAIN flushLog :
          flushLog[i].call = "destroy" /\ flushLog[i].comp = "Child"
    /\ \E i \in DOMAIN flushLog :
          flushLog[i].call = "destroy" /\ flushLog[i].comp = "App"
    /\ \E i, j \in DOMAIN flushLog :
          i # j /\ flushLog[i].call = "create" /\ flushLog[j].call = "create"

\* C8: no hook runs a create while the destroy that its previous create
\* returned has not been invoked.
C8_DestroyBeforeNextCreate == skipped = {}

\* the callbacks that the next flush of the passive effects invokes
NextFlushLog == flushPendingPassiveEffects(EffectState).log

\* the last commit has deleted Child
ChildDeleted ==
    /\ memoizedEffect["Child"] = 0
    /\ pendingPassiveEffects.unmount # <<>>

\* C37: when a commit has deleted Child, the next flush of the passive
\* effects invokes the destroy that the last create of its effect returned,
\* and it invokes no create of Child; no later flush does while Child stays
\* unmounted.
C37_DeletedEffectDestroyed ==
    /\ (ChildDeleted /\ live["Child"] # 0) =>
           \E i \in DOMAIN NextFlushLog :
              /\ NextFlushLog[i].call = "destroy"
              /\ NextFlushLog[i].comp = "Child"
              /\ NextFlushLog[i].fn = live["Child"]
    /\ memoizedEffect["Child"] = 0 =>
           \A i \in DOMAIN NextFlushLog :
              ~(NextFlushLog[i].call = "create" /\ NextFlushLog[i].comp = "Child")

\* ========================================================================
\* SpecHooks: the hook calls of the update renders of one function component
\* (fiberHooks.ts renderWithHooks, updateWorkInProgressHook) inside the loop
\* of renderRoot (workLoop.ts).
\*
\* The component has been mounted with some number of useState hooks.  An
\* update render calls useState some number of times, the same number as,
\* fewer or more than the render before.
\* ========================================================================
HookStates == {0, 1}

HookChains == UNION {[1..n -> HookStates] : n \in 1..MaxHooks}

HInit ==
    /\ hookChain \in HookChains
    /\ wipHookChain = <<>>
    /\ hookCursor = 0
    /\ workInProgressHookSet = FALSE
    /\ hookCalls = 0
    /\ hookCallsMade = 0
    /\ hookRender = "idle"
    /\ prevHookCount = Len(hookChain)

\* fiberHooks.ts renderWithHooks up to the call of the component, from
\* beginWork on the fiber of the component: wip.memoizedState = null.  The
\* module-level cursors are not touched.
RenderWithHooks ==
    /\ hookRender \in {"idle", "committed"}
    /\ \E n \in 1..MaxHooks : hookCalls' = n
    /\ hookCallsMade' = 0
    /\ wipHookChain' = <<>>
    /\ hookRender' = "rendering"
    /\ prevHookCount' = Len(hookChain)
    /\ UNCHANGED <<hookChain, hookCursor, workInProgressHookSet>>
    /\ UNCHANGED <<rvars, wvars, uvars, qvars, svars, lvars, evars, cvars, tvars>>

\* fiberHooks.ts updateWorkInProgressHook, called by updateState: the next
\* Hook of the current fiber is cloned onto the list of the work-in-progress
\* fiber; an Error is thrown when the current fiber has no next Hook.
updateWorkInProgressHook ==
    LET nextCurrentHook ==
            IF hookCursor = 0
            THEN \* current.memoizedState
                 (IF hookChain = <<>> THEN 0 ELSE 1)
            ELSE \* currentHook.next
                 (IF hookCursor < Len(hookChain) THEN hookCursor + 1 ELSE 0)
    IN  IF nextCurrentHook = 0
        THEN /\ hookRender' = "threw"
             /\ UNCHANGED <<hookChain, wipHookChain, hookCursor,
                            workInProgressHookSet, hookCallsMade>>
        ELSE /\ hookCursor' = nextCurrentHook
             /\ \E state \in HookStates :
                   wipHookChain' = Append(wipHookChain, state)
             /\ workInProgressHookSet' = TRUE
             /\ hookCallsMade' = hookCallsMade + 1
             /\ UNCHANGED <<hookChain, hookRender>>

\* the component calls useState
UseState ==
    /\ hookRender = "rendering"
    /\ hookCallsMade < hookCalls
    /\ updateWorkInProgressHook
    /\ UNCHANGED <<hookCalls, prevHookCount>>
    /\ UNCHANGED <<rvars, wvars, uvars, qvars, svars, lvars, evars, cvars, tvars>>

\* The component returns: the end of renderWithHooks resets the cursors;
\* the pass completes and its commit makes the work-in-progress fiber the
\* current one.
ComponentReturns ==
    /\ hookRender = "rendering"
    /\ hookCallsMade = hookCalls
    /\ hookCursor' = 0
    /\ workInProgressHookSet' = FALSE
    /\ hookChain' = wipHookChain
    /\ wipHookChain' = <<>>
    /\ hookRender' = "committed"
    /\ UNCHANGED <<hookCalls, hookCallsMade, prevHookCount>>
    /\ UNCHANGED <<rvars, wvars, uvars, qvars, svars, lvars, evars, cvars, tvars>>

\* workLoop.ts renderRoot: the catch of the do-while loop calls handleThrow,
\* which leaves workInProgressSuspendedReason at NotSuspended for a value
\* that is not the SuspenseException; the loop then runs the work loop
\* again, on the same workInProgress: beginWork and renderWithHooks of the
\* component, whose cursors no unwinding has reset.
HandleThrow ==
    /\ hookRender = "threw"
    /\ hookCallsMade' = 0
    /\ wipHookChain' = <<>>
    /\ hookRender' = "rendering"
    /\ UNCHANGED <<hookChain, hookCursor, workInProgressHookSet, hookCalls,
                   prevHookCount>>
    /\ UNCHANGED <<rvars, wvars, uvars, qvars, svars, lvars, evars, cvars, tvars>>

HNext ==
    \/ RenderWithHooks
    \/ UseState
    \/ ComponentReturns
    \/ HandleThrow

\* ------------------------------------------------------------------------
\* Properties of SpecHooks
\* ------------------------------------------------------------------------
\* C17: a render that is committed has made as many hook calls as the
\* render before it, and the Error that a hook call throws ends the render
\* as a failure.
C17_MismatchIsFatal ==
    [][/\ hookRender' = "committed" => hookCallsMade' = prevHookCount'
       /\ hookRender = "threw" => hookRender' = "failed"
      ]_vars

\* ========================================================================
\* SpecClone: bailoutOnAlreadyFinishedWork on a work-in-progress fiber whose
\* childLanes include the render lane (beginWork.ts), with cloneChildFibers
\* (childFibers.ts) and createWorkInProgress (fiber.ts).
\*
\* A fiber is a number.  The fiber that bails out is WipParent, its current
\* fiber is CurrentParent; CurrentChild(i) is the i-th child of the current
\* fiber, and AlternateOf(f) is the fiber that createWorkInProgress creates
\* for a fiber f that has no alternate.  The child of a child is not
\* followed, it is a number that stands for the fiber.
\* ========================================================================
Null == 0
CurrentParent == 1
WipParent == 2
CurrentChild(i) == 10 + i
AlternateOf(f) == f + 10
GrandChild(f) == f + 20

\* fiberFlags.ts: the flags of a fiber, as a set
FiberNoFlags == {}
FiberFlags == {"Placement", "Update", "ChildDeletion"}

\* The work-in-progress fiber that an earlier pass left as the alternate of
\* the i-th of n children: what it held in that pass.
StaleAlternate(i, n, return, flags) ==
    [alternate |-> CurrentChild(i),
     child |-> GrandChild(CurrentChild(i)),
     sibling |-> IF i < n THEN AlternateOf(CurrentChild(i + 1)) ELSE Null,
     return |-> return,
     flags |-> flags,
     subtreeFlags |-> flags,
     pendingProps |-> 0,
     memoizedProps |-> 0,
     memoizedState |-> 0,
     lanes |-> NoLanes,
     childLanes |-> NoLanes]

\* The i-th of n children of the current fiber, in a committed tree: the
\* commit has cleared its flags and has left its subtreeFlags.
CommittedChild(i, n, hasAlternate, subtreeFlags) ==
    [alternate |-> IF hasAlternate THEN AlternateOf(CurrentChild(i)) ELSE Null,
     child |-> GrandChild(CurrentChild(i)),
     sibling |-> IF i < n THEN CurrentChild(i + 1) ELSE Null,
     return |-> CurrentParent,
     flags |-> FiberNoFlags,
     subtreeFlags |-> subtreeFlags,
     pendingProps |-> 1,
     memoizedProps |-> 1,
     memoizedState |-> 0,
     lanes |-> NoLanes,
     childLanes |-> NoLanes]

NoFiber ==
    [alternate |-> Null, child |-> Null, sibling |-> Null, return |-> Null,
     flags |-> FiberNoFlags, subtreeFlags |-> FiberNoFlags, pendingProps |-> 0,
     memoizedProps |-> 0, memoizedState |-> 0,
     lanes |-> NoLanes, childLanes |-> NoLanes]

\* fiber.ts FiberNode constructor
FiberNode(pendingProps) == [NoFiber EXCEPT !.pendingProps = pendingProps]

FiberIds ==
    {CurrentParent, WipParent}
        \cup {CurrentChild(i) : i \in 1..MaxSiblings}
        \cup {AlternateOf(CurrentChild(i)) : i \in 1..MaxSiblings}

\* The fiber f has been created.
IsFiber(fs, f) == f # Null /\ fs[f] # NoFiber

\* What an earlier pass can have left of the alternate of a child: nothing,
\* or a fiber with the return and the flags of that pass.
AlternateKinds ==
    {[made |-> FALSE, return |-> Null, flags |-> FiberNoFlags]}
        \cup [made : {TRUE}, return : {CurrentParent, WipParent},
              flags : {FiberNoFlags, {"Update"}}]

\* The state when beginWork has reached the bailout of WipParent:
\* createWorkInProgress has copied the child of the current fiber.
CInit ==
    \E n \in 1..MaxSiblings :
    \E kind \in [1..n -> AlternateKinds],
       stale \in [1..n -> {FiberNoFlags, {"Update"}}] :
        /\ childList = [i \in 1..n |-> CurrentChild(i)]
        /\ fibers =
              [f \in FiberIds |->
                 IF f = CurrentParent
                 THEN [NoFiber EXCEPT !.alternate = WipParent,
                                      !.child = CurrentChild(1),
                                      !.pendingProps = 1]
                 ELSE IF f = WipParent
                 THEN [NoFiber EXCEPT !.alternate = CurrentParent,
                                      !.child = CurrentChild(1),
                                      !.pendingProps = 1]
                 ELSE IF \E i \in 1..n : f = CurrentChild(i)
                 THEN LET i == f - CurrentChild(0)
                      IN  CommittedChild(i, n, kind[i].made, stale[i])
                 ELSE IF \E i \in 1..n : f = AlternateOf(CurrentChild(i)) /\ kind[i].made
                 THEN LET i == f - AlternateOf(CurrentChild(0))
                      IN  StaleAlternate(i, n, kind[i].return, kind[i].flags)
                 ELSE NoFiber]
        /\ cloneCurrentChild = Null
        /\ cloneNewChild = Null
        /\ clonePc = "start"
        /\ currentAtStart = fibers

\* fiber.ts createWorkInProgress(current, pendingProps): the fibers after
\* the call; the fiber it returns is WorkInProgressOf(fs, current).
WorkInProgressOf(fs, current) ==
    IF fs[current].alternate = Null THEN AlternateOf(current)
    ELSE fs[current].alternate

createWorkInProgress(fs, current, pendingProps) ==
    LET wip == WorkInProgressOf(fs, current)
        made == IF fs[current].alternate = Null
                THEN \* new FiberNode; wip.alternate = current;
                     \* current.alternate = wip
                     [fs EXCEPT ![wip] = [FiberNode(pendingProps) EXCEPT
                                             !.alternate = current],
                                ![current].alternate = wip]
                ELSE [fs EXCEPT ![wip].pendingProps = pendingProps,
                                ![wip].flags = FiberNoFlags,
                                ![wip].subtreeFlags = FiberNoFlags]
    IN  [made EXCEPT ![wip].child = fs[current].child,
                     ![wip].memoizedProps = fs[current].memoizedProps,
                     ![wip].memoizedState = fs[current].memoizedState,
                     ![wip].lanes = fs[current].lanes,
                     ![wip].childLanes = fs[current].childLanes]

\* childFibers.ts cloneChildFibers(wip): the statements before the loop
CloneFirstChild ==
    /\ clonePc = "start"
    /\ IF fibers[WipParent].child = Null
       THEN /\ clonePc' = "done"
            /\ UNCHANGED <<fibers, cloneCurrentChild, cloneNewChild>>
       ELSE LET currentChild == fibers[WipParent].child
                firstClone == WorkInProgressOf(fibers, currentChild)
                cloned == createWorkInProgress(fibers, currentChild,
                                               fibers[currentChild].pendingProps)
            IN  /\ fibers' = [cloned EXCEPT ![WipParent].child = firstClone,
                                            ![firstClone].return = WipParent]
                /\ cloneCurrentChild' = currentChild
                /\ cloneNewChild' = firstClone
                /\ clonePc' = "loop"
    /\ UNCHANGED <<childList, currentAtStart>>
    /\ UNCHANGED <<rvars, wvars, uvars, qvars, svars, lvars, evars, hvars, tvars>>

\* one iteration of the while loop of cloneChildFibers:
\* firstClone = firstClone.sibling = createWorkInProgress(firstClone,
\* firstClone.pendingProps)
CloneNextChild ==
    /\ clonePc = "loop"
    /\ fibers[cloneCurrentChild].sibling # Null
    /\ LET next == WorkInProgressOf(fibers, cloneNewChild)
           cloned == createWorkInProgress(fibers, cloneNewChild,
                                          fibers[cloneNewChild].pendingProps)
       IN  /\ cloneCurrentChild' = fibers[cloneCurrentChild].sibling
           /\ cloneNewChild' = next
           /\ fibers' = [[cloned EXCEPT ![cloneNewChild].sibling = next]
                            EXCEPT ![next].return = WipParent]
    /\ UNCHANGED <<clonePc, childList, currentAtStart>>
    /\ UNCHANGED <<rvars, wvars, uvars, qvars, svars, lvars, evars, hvars, tvars>>

\* the loop ends; bailoutOnAlreadyFinishedWork returns wip.child
CloneReturns ==
    /\ clonePc = "loop"
    /\ fibers[cloneCurrentChild].sibling = Null
    /\ clonePc' = "done"
    /\ UNCHANGED <<fibers, cloneCurrentChild, cloneNewChild, childList,
                   currentAtStart>>
    /\ UNCHANGED <<rvars, wvars, uvars, qvars, svars, lvars, evars, hvars, tvars>>

CNext ==
    \/ CloneFirstChild
    \/ CloneNextChild
    \/ CloneReturns

\* ------------------------------------------------------------------------
\* Properties of SpecClone
\* ------------------------------------------------------------------------
\* The i-th fiber of the child list of WipParent, Null past its end
RECURSIVE NthChild(_, _)
NthChild(f, i) ==
    IF f = Null \/ i = 1 THEN f
    ELSE NthChild(fibers[f].sibling, i - 1)

\* C19: when the fiber has bailed out with childLanes that include the
\* render lane, its child list is one work-in-progress fiber for each child
\* of the current fiber, in the same order; the alternate of each is that
\* child, and the return of each is the fiber that bailed out.
C19_OneClonePerCurrentChild ==
    clonePc = "done" =>
        /\ \A i \in DOMAIN childList :
              LET clone == NthChild(fibers[WipParent].child, i)
              IN  /\ clone # Null
                  /\ clone # childList[i]
                  /\ fibers[clone].alternate = childList[i]
                  /\ fibers[clone].return = WipParent
        /\ NthChild(fibers[WipParent].child, Len(childList) + 1) = Null

\* C20: while the pass renders, no field of a fiber of the current tree is
\* written (the link to a work-in-progress fiber that is created for it
\* apart).
C20_CurrentTreeNotWritten ==
    \A i \in DOMAIN childList :
        [fibers[childList[i]] EXCEPT !.alternate = Null]
            = [currentAtStart[childList[i]] EXCEPT !.alternate = Null]

\* ========================================================================
\* SpecTree: render passes and commits of the tree
\*     HostRoot -> App -> div -> span
\* (workLoop.ts, beginWork.ts, completeWork.ts, commitWork.ts).  App is a
\* function component with one state hook; div and span are host
\* components.  Every fiber has one child at most.  All the updates have
\* the lane SyncLane: a pass runs from its start to its commit with no
\* call of setState or of render in between.
\*
\* The fiber of level l that the mount has created is MountFiber(l); the
\* HostRoot has both its fibers from createContainer and the mount on.
\* An element and a props object are a number: two of them are the same
\* object when the numbers are equal.
\* ========================================================================
TreeLevels == 1..4

MountFiber(level) == 40 + level

TreeFiberIds ==
    {MountFiber(l) : l \in TreeLevels} \cup {AlternateOf(MountFiber(l)) : l \in TreeLevels}

LevelOf(f) == f % 10

\* workTags.ts
TreeTagOf(f) ==
    IF LevelOf(f) = 1 THEN "HostRoot"
    ELSE IF LevelOf(f) = 2 THEN "FunctionComponent"
    ELSE "HostComponent"

\* A props object that is not the object p: the props of an element that a
\* render has just created.
FreshProps(p) == 1 - p

\* The tree after createRoot(container).render(<App/>) has been committed:
\* the work-in-progress HostRoot of the mount is the current one; the mount
\* has put Placement on App alone and the commit has cleared it, and has
\* left the subtreeFlags of the HostRoot.
TInit ==
    /\ fibers =
         [f \in TreeFiberIds |->
            IF f = AlternateOf(MountFiber(1))
            THEN [NoFiber EXCEPT !.alternate = MountFiber(1),
                                 !.child = MountFiber(2),
                                 !.subtreeFlags = {"Placement"},
                                 !.memoizedState = 1]
            ELSE IF f = MountFiber(1)
            THEN [NoFiber EXCEPT !.alternate = AlternateOf(MountFiber(1)),
                                 !.lanes = SyncLane]
            ELSE IF f \in {MountFiber(l) : l \in 2..4}
            THEN [NoFiber EXCEPT
                     !.return = IF LevelOf(f) = 2
                                THEN AlternateOf(MountFiber(1))
                                ELSE MountFiber(LevelOf(f) - 1),
                     !.child = IF LevelOf(f) = 4 THEN Null
                               ELSE MountFiber(LevelOf(f) + 1)]
            ELSE NoFiber]
    /\ treeRoot = [current |-> AlternateOf(MountFiber(1)), pendingLanes |-> NoLanes]
    /\ treeWorkInProgress = Null
    /\ treePhase = "idle"
    /\ appQueue = [pending |-> <<>>, lastRenderedState |-> 0]
    /\ rootQueue = Null
    /\ firstBailedOut = Null
    /\ passIdentical = FALSE
    /\ lastCommit = [identical |-> FALSE, mutations |-> 0]

\* The variables of SpecTree in the specifications that leave them alone
TIdle ==
    /\ treeRoot = [current |-> Null, pendingLanes |-> NoLanes]
    /\ treeWorkInProgress = Null
    /\ treePhase = "idle"
    /\ appQueue = [pending |-> <<>>, lastRenderedState |-> 0]
    /\ rootQueue = Null
    /\ firstBailedOut = Null
    /\ passIdentical = FALSE
    /\ lastCommit = [identical |-> FALSE, mutations |-> 0]

\* The state of a pass: what the functions of the render phase read and
\* write.
TreeMachine ==
    [fibers |-> fibers, appQueue |-> appQueue, rootQueue |-> rootQueue,
     firstBailedOut |-> firstBailedOut, passIdentical |-> passIdentical,
     next |-> Null]

\* fiberHooks.ts dispatchSetState(fiber, updateQueue, action) with a value as
\* the action, enqueueUpdate and scheduleUpdateOnFiber.  fiber is the fiber
\* that rendered when useState mounted.  markUpdateFromFiberToRoot writes
\* no fiber.
SetAppState ==
    /\ treePhase = "idle"
    /\ Len(appQueue.pending) < MaxTreePending
    /\ \E action \in {0, 1} :
         LET fiber == MountFiber(2)
             current == fibers[fiber].alternate
             eager == /\ fibers[fiber].lanes = NoLanes
                      /\ (current = Null \/ fibers[current].lanes = NoLanes)
             hit == eager /\ appQueue.lastRenderedState = action
             lane == IF hit THEN NoLane ELSE SyncLane
         IN  /\ appQueue' = [appQueue EXCEPT !.pending = Append(@, action)]
             /\ fibers' =
                  [f \in DOMAIN fibers |->
                     IF f = fiber \/ (f = current /\ current # Null)
                     THEN [fibers[f] EXCEPT !.lanes = mergeLanes(@, lane)]
                     ELSE fibers[f]]
             /\ treeRoot' = IF hit THEN treeRoot
                            ELSE [treeRoot EXCEPT !.pendingLanes = mergeLanes(@, SyncLane)]
    /\ UNCHANGED <<treeWorkInProgress, treePhase, rootQueue, firstBailedOut,
                   passIdentical, lastCommit>>
    /\ UNCHANGED <<cloneCurrentChild, cloneNewChild, clonePc, childList,
                   currentAtStart>>
    /\ UNCHANGED <<rvars, wvars, uvars, qvars, svars, lvars, evars, hvars>>

\* fiberReconciler.ts updateContainer(element, root): root.render(<App/>)
\* with a new element.
UpdateContainer ==
    /\ treePhase = "idle"
    /\ rootQueue = Null
    /\ LET hostRootFiber == treeRoot.current
           other == fibers[hostRootFiber].alternate
       IN  /\ rootQueue' = 1 + (fibers[hostRootFiber].memoizedState % 2)
           /\ fibers' = [fibers EXCEPT
                            ![hostRootFiber].lanes = mergeLanes(@, SyncLane),
                            ![other].lanes = mergeLanes(@, SyncLane)]
    /\ treeRoot' = [treeRoot EXCEPT !.pendingLanes = mergeLanes(@, SyncLane)]
    /\ UNCHANGED <<treeWorkInProgress, treePhase, appQueue, firstBailedOut,
                   passIdentical, lastCommit>>
    /\ UNCHANGED <<cloneCurrentChild, cloneNewChild, clonePc, childList,
                   currentAtStart>>
    /\ UNCHANGED <<rvars, wvars, uvars, qvars, svars, lvars, evars, hvars>>

\* childFibers.ts cloneChildFibers(wip) for a fiber whose child has no
\* sibling: the statements before the loop
cloneOnlyChild(fs, wip) ==
    IF fs[wip].child = Null THEN fs
    ELSE LET currentChild == fs[wip].child
             clone == WorkInProgressOf(fs, currentChild)
             cloned == createWorkInProgress(fs, currentChild,
                                            fs[currentChild].pendingProps)
         IN  [cloned EXCEPT ![wip].child = clone, ![clone].return = wip]

\* beginWork.ts bailoutOnAlreadyFinishedWork(wip, renderLane)
bailoutOnAlreadyFinishedWork(t, wip, renderLane) ==
    LET t1 == [t EXCEPT !.firstBailedOut = IF @ = Null THEN wip ELSE @]
    IN  IF ~includeSomeLanes(t.fibers[wip].childLanes, renderLane)
        THEN [t1 EXCEPT !.next = Null]
        ELSE LET fs == cloneOnlyChild(t.fibers, wip)
             IN  [t1 EXCEPT !.fibers = fs, !.next = fs[wip].child]

\* childFibers.ts reconcileSingleElement and useFiber for the one child of
\* wip, whose element has the key and the type of the current child and
\* new props; placeSingleChild puts no flag on a fiber that has an
\* alternate.
reconcileSingleElement(fs, wip) ==
    LET currentFiber == fs[fs[wip].alternate].child
    IN  IF currentFiber = Null THEN [fs EXCEPT ![wip].child = Null]
        ELSE LET existing == WorkInProgressOf(fs, currentFiber)
                 props == FreshProps(fs[currentFiber].memoizedProps)
                 cloned == createWorkInProgress(fs, currentFiber, props)
             IN  [cloned EXCEPT ![existing].sibling = Null,
                                ![existing].return = wip,
                                ![wip].child = existing]

\* beginWork.ts updateHostRoot(wip, renderLane)
updateHostRoot(t, wip, renderLane) ==
    LET prevChildren == t.fibers[wip].memoizedState
        nextChildren == IF t.rootQueue = Null THEN prevChildren ELSE t.rootQueue
        t1 == [t EXCEPT !.rootQueue = Null,
                        !.fibers[wip].memoizedState = nextChildren]
    IN  IF prevChildren = nextChildren
        THEN bailoutOnAlreadyFinishedWork(t1, wip, renderLane)
        ELSE LET fs == reconcileSingleElement(t1.fibers, wip)
             IN  [t1 EXCEPT !.fibers = fs, !.next = fs[wip].child,
                            !.passIdentical = FALSE]

\* beginWork.ts updateFunctionComponent(wip, Component, renderLane) with
\* renderWithHooks, updateState and bailoutHook (fiberHooks.ts); every
\* update of the queue has the render lane or no lane.
updateAppComponent(t, wip, renderLane, didReceiveUpdate) ==
    LET pending == t.appQueue.pending
        prevState == t.fibers[wip].memoizedState
        memoizedState == IF pending = <<>> THEN prevState
                         ELSE pending[Len(pending)]
        received == didReceiveUpdate \/ prevState # memoizedState
        t1 == [t EXCEPT
                 !.appQueue = IF pending = <<>> THEN @
                              ELSE [pending |-> <<>>,
                                    lastRenderedState |-> memoizedState],
                 !.fibers[wip].memoizedState = memoizedState,
                 !.passIdentical = @ /\ ~received]
    IN  IF ~received
        THEN LET current == t.fibers[wip].alternate
             IN  bailoutOnAlreadyFinishedWork(
                    [t1 EXCEPT !.fibers[current].lanes = removeLanes(@, renderLane)],
                    wip, renderLane)
        ELSE LET fs == reconcileSingleElement(t1.fibers, wip)
             IN  [t1 EXCEPT !.fibers = fs, !.next = fs[wip].child]

\* beginWork.ts updateHostComponent(wip)
updateHostComponent(t, wip) ==
    LET fs == reconcileSingleElement(t.fibers, wip)
    IN  [t EXCEPT !.fibers = fs, !.next = fs[wip].child]

\* beginWork.ts beginWork(wip, renderLane); every work-in-progress fiber of
\* the tree has a current fiber
beginWork(t, wip, renderLane) ==
    LET current == t.fibers[wip].alternate
        didReceiveUpdate == t.fibers[current].memoizedProps # t.fibers[wip].pendingProps
    IN  IF ~didReceiveUpdate /\ ~includeSomeLanes(t.fibers[current].lanes, renderLane)
        THEN bailoutOnAlreadyFinishedWork(t, wip, renderLane)
        ELSE LET t1 == [t EXCEPT !.fibers[wip].lanes = NoLanes]
             IN  IF TreeTagOf(wip) = "HostRoot"
                 THEN updateHostRoot(t1, wip, renderLane)
                 ELSE IF TreeTagOf(wip) = "FunctionComponent"
                 THEN updateAppComponent(t1, wip, renderLane, didReceiveUpdate)
                 ELSE updateHostComponent(t1, wip)

\* completeWork.ts bubbleProperties(wip), on a fiber with one child at most
bubbleProperties(fs, wip) ==
    LET child == fs[wip].child
    IN  IF child = Null
        THEN [fs EXCEPT ![wip].childLanes = NoLanes]
        ELSE [fs EXCEPT
                ![wip].subtreeFlags = @ \cup fs[child].subtreeFlags \cup fs[child].flags,
                ![wip].childLanes = mergeLanes(fs[child].lanes, fs[child].childLanes),
                ![child].return = wip]

\* completeWork.ts completeWork(wip); the host fibers have a stateNode
completeWork(fs, wip) ==
    IF TreeTagOf(wip) = "HostComponent" /\ fs[wip].alternate # Null
    THEN bubbleProperties([fs EXCEPT ![wip].flags = @ \cup {"Update"}], wip)
    ELSE bubbleProperties(fs, wip)

\* workLoop.ts completeUnitOfWork(fiber): no fiber has a sibling, so the
\* loop ends at the root with workInProgress = null
RECURSIVE completeUnitOfWork(_, _)
completeUnitOfWork(fs, node) ==
    IF node = Null THEN fs
    ELSE LET done == completeWork(fs, node)
         IN  completeUnitOfWork(done, done[node].return)

\* No new element waits in the queue of the HostRoot, and the updates that
\* wait in the queue of App give the state of the committed tree.
SameInputs ==
    /\ rootQueue = Null
    /\ \/ appQueue.pending = <<>>
       \/ appQueue.pending[Len(appQueue.pending)]
             = fibers[fibers[treeRoot.current].child].memoizedState

\* workLoop.ts prepareFreshStack(root, lane), from renderRoot: the props of
\* the work-in-progress HostRoot are a new object
PrepareFreshStack ==
    /\ treePhase = "idle"
    /\ treeRoot.pendingLanes # NoLanes
    /\ fibers' = createWorkInProgress(fibers, treeRoot.current,
                                      FreshProps(fibers[treeRoot.current].memoizedProps))
    /\ treeWorkInProgress' = WorkInProgressOf(fibers, treeRoot.current)
    /\ treePhase' = "render"
    /\ firstBailedOut' = Null
    /\ passIdentical' = SameInputs
    /\ UNCHANGED <<treeRoot, appQueue, rootQueue, lastCommit>>
    /\ UNCHANGED <<cloneCurrentChild, cloneNewChild, clonePc, childList,
                   currentAtStart>>
    /\ UNCHANGED <<rvars, wvars, uvars, qvars, svars, lvars, evars, hvars>>

\* workLoop.ts performUnitOfWork(workInProgress)
PerformUnitOfWork ==
    /\ treePhase = "render"
    /\ treeWorkInProgress # Null
    /\ LET fiber == treeWorkInProgress
           t == beginWork(TreeMachine, fiber, SyncLane)
           fs == [t.fibers EXCEPT ![fiber].memoizedProps = t.fibers[fiber].pendingProps]
       IN  /\ fibers' = IF t.next = Null THEN completeUnitOfWork(fs, fiber) ELSE fs
           /\ treeWorkInProgress' = t.next
           /\ treePhase' = IF t.next = Null THEN "finished" ELSE "render"
           /\ appQueue' = t.appQueue
           /\ rootQueue' = t.rootQueue
           /\ firstBailedOut' = t.firstBailedOut
           /\ passIdentical' = t.passIdentical
    /\ UNCHANGED <<treeRoot, lastCommit>>
    /\ UNCHANGED <<cloneCurrentChild, cloneNewChild, clonePc, childList,
                   currentAtStart>>
    /\ UNCHANGED <<rvars, wvars, uvars, qvars, svars, lvars, evars, hvars>>

\* fiberFlags.ts MutationMask | PassiveMask, of the flags of the model
TreeMutationMask == {"Placement", "Update", "ChildDeletion"}

\* commitWork.ts commitEffects: the fibers that the traversal of the
\* mutation phase calls commitMutationEffectsOnFiber on, from fiber f down
RECURSIVE CommitVisits(_, _)
CommitVisits(fs, f) ==
    IF fs[f].subtreeFlags \cap TreeMutationMask # {} /\ fs[f].child # Null
    THEN {f} \cup CommitVisits(fs, fs[f].child)
    ELSE {f}

\* workLoop.ts commitRoot(root) with commitMutationEffects: the flags of a
\* visited fiber are applied to the host tree and cleared
CommitTree ==
    /\ treePhase = "finished"
    /\ LET finishedWork == fibers[treeRoot.current].alternate
           hasEffect == (fibers[finishedWork].subtreeFlags
                            \cup fibers[finishedWork].flags) \cap TreeMutationMask # {}
           visits == IF hasEffect THEN CommitVisits(fibers, finishedWork) ELSE {}
           mutating == {f \in visits : fibers[f].flags \cap TreeMutationMask # {}}
       IN  /\ fibers' = [f \in DOMAIN fibers |->
                           IF f \in visits
                           THEN [fibers[f] EXCEPT !.flags = @ \ TreeMutationMask]
                           ELSE fibers[f]]
           /\ treeRoot' = [current |-> finishedWork,
                           pendingLanes |-> treeRoot.pendingLanes \ SyncLane]
           /\ lastCommit' = [identical |-> passIdentical,
                             mutations |-> Cardinality(mutating)]
    /\ treePhase' = "idle"
    /\ UNCHANGED <<treeWorkInProgress, appQueue, rootQueue, firstBailedOut,
                   passIdentical>>
    /\ UNCHANGED <<cloneCurrentChild, cloneNewChild, clonePc, childList,
                   currentAtStart>>
    /\ UNCHANGED <<rvars, wvars, uvars, qvars, svars, lvars, evars, hvars>>

TreeNext ==
    \/ SetAppState
    \/ UpdateContainer
    \/ PrepareFreshStack
    \/ PerformUnitOfWork
    \/ CommitTree

\* ------------------------------------------------------------------------
\* Properties of SpecTree
\* ------------------------------------------------------------------------
\* The fibers below fiber f in the tree that f is the root of
RECURSIVE FibersBelow(_, _)
FibersBelow(fs, f) ==
    IF fs[f].child = Null THEN {}
    ELSE {fs[f].child} \cup FibersBelow(fs, fs[f].child)

\* C12: when a pass has rendered with the props, the state and the context
\* of the committed tree, the subtreeFlags of every fiber of the finished
\* tree below the first fiber that bailed out are NoFlags, and the commit of
\* the pass issues no host mutation.
C12_IdempotentBailout ==
    /\ (treePhase = "finished" /\ passIdentical /\ firstBailedOut # Null) =>
          \A f \in FibersBelow(fibers, firstBailedOut) :
              fibers[f].subtreeFlags = FiberNoFlags
    /\ lastCommit.identical => lastCommit.mutations = 0

\* ========================================================================
\* SpecSuspense: createRoot(container).render(
\*     <Suspense fallback={<p/>}><Cpn/></Suspense>)
\* where Cpn calls use(thenable) and returns <div/>, rendered fiber by fiber
\* (beginWork.ts, completeWork.ts, fiberUnwindWork.ts, fiberThrow.ts,
\* workLoop.ts, commitWork.ts, thenable.ts).
\*
\* The places of the tree are numbered: 1 HostRoot, 2 Suspense, 3 Offscreen,
\* 4 Cpn, 5 div, 6 the Fragment of the fallback, 7 p.  SuspenseFiber(l) is the
\* fiber that a mount creates at place l, and AlternateOf of it the fiber
\* that createWorkInProgress creates from it.  A props object is a number;
\* the props of an Offscreen fiber are 2 and 3 with the mode hidden, 0 and 1
\* with the mode visible.  An element is a number.  Every call of render has
\* the lane containerLane.  A pass runs from its start to its commit with no
\* call of render and no callback of the thenable in between.
\* ========================================================================
SuspenseLevels == 1..7

SuspenseFiber(level) == 60 + level

SuspenseFiberIds ==
    {SuspenseFiber(l) : l \in SuspenseLevels}
        \cup {AlternateOf(SuspenseFiber(l)) : l \in SuspenseLevels}

\* workTags.ts: the tag of the fiber at each place
SuspenseTags ==
    <<"HostRoot", "SuspenseComponent", "OffscreenComponent", "FunctionComponent",
      "HostComponent", "Fragment", "HostComponent">>

SuspenseTagOf(f) == SuspenseTags[LevelOf(f)]

\* fiber.ts OffscreenProps: a new props object with the mode, that is not
\* the object old
OffscreenProps(mode, old) == (IF mode = "hidden" THEN 2 ELSE 0) + (1 - (old % 2))

ModeOf(props) == IF props >= 2 THEN "hidden" ELSE "visible"

\* fiberFlags.ts
SuspenseMutationMask == {"Placement", "Update", "ChildDeletion", "Visibility"}
HostEffectMask == SuspenseMutationMask \cup {"DidCapture"}

\* The state after createRoot(container).render(element): the update waits
\* in the queue of the HostRoot, nothing is rendered.
UInit ==
    /\ containerLane \in {SyncLane, TransitionLane}
    /\ fibers = [f \in SuspenseFiberIds |->
                   IF f = SuspenseFiber(1)
                   THEN [NoFiber EXCEPT !.lanes = containerLane]
                   ELSE NoFiber]
    /\ suspenseRoot = [current |-> SuspenseFiber(1), pendingLanes |-> containerLane,
                       suspendedLanes |-> NoLanes, pingedLanes |-> NoLanes,
                       pingCache |-> {}]
    /\ suspenseWorkInProgress = Null
    /\ suspensePhase = "idle"
    /\ suspenseRenderLane = NoLane
    /\ suspenseHandlerStack = <<>>
    /\ fiberDeletions = [f \in SuspenseFiberIds |-> {}]
    /\ containerQueue = 1
    /\ elementsMade = 1
    /\ thenable = [settled |-> FALSE, status |-> "untracked", pings |-> {}]
    /\ hostView = [nodes |-> {}, hidden |-> {}]
    /\ componentCalls = 0
    /\ resolvedLog = [waited |-> FALSE, pinged |-> FALSE, external |-> FALSE,
                      invoked |-> FALSE]

\* The variables of SpecSuspense in the specifications that leave them alone
UIdle ==
    /\ containerLane = SyncLane
    /\ suspenseRoot = [current |-> Null, pendingLanes |-> NoLanes,
                       suspendedLanes |-> NoLanes, pingedLanes |-> NoLanes,
                       pingCache |-> {}]
    /\ suspenseWorkInProgress = Null
    /\ suspensePhase = "idle"
    /\ suspenseRenderLane = NoLane
    /\ suspenseHandlerStack = <<>>
    /\ fiberDeletions = <<>>
    /\ containerQueue = Null
    /\ elementsMade = 0
    /\ thenable = [settled |-> FALSE, status |-> "untracked", pings |-> {}]
    /\ hostView = [nodes |-> {}, hidden |-> {}]
    /\ componentCalls = 0
    /\ resolvedLog = [waited |-> FALSE, pinged |-> FALSE, external |-> FALSE,
                      invoked |-> FALSE]

\* The state of a pass: what the functions of the render phase read and
\* write.  next is the fiber a function returns, thrown says that it has
\* thrown SuspenseException.
SuspenseMachine ==
    [fibers |-> fibers, deletions |-> fiberDeletions, containerQueue |-> containerQueue,
     thenable |-> thenable, root |-> suspenseRoot, stack |-> suspenseHandlerStack,
     calls |-> componentCalls, invoked |-> resolvedLog.invoked,
     next |-> Null, thrown |-> FALSE]

\* fiberReconciler.ts updateContainer(element, root): root.render with a new
\* element of the same shape.
RenderAgain ==
    /\ suspensePhase = "idle"
    /\ elementsMade < MaxRootRenders
    /\ LET hostRootFiber == suspenseRoot.current
           other == fibers[hostRootFiber].alternate
       IN  fibers' = [f \in DOMAIN fibers |->
                        IF f = hostRootFiber \/ (other # Null /\ f = other)
                        THEN [fibers[f] EXCEPT !.lanes = mergeLanes(@, containerLane)]
                        ELSE fibers[f]]
    /\ containerQueue' = elementsMade + 1
    /\ elementsMade' = elementsMade + 1
    /\ suspenseRoot' = markRootUpdated(suspenseRoot, containerLane)
    /\ resolvedLog' = [resolvedLog EXCEPT !.external = @ \/ resolvedLog.pinged]
    /\ UNCHANGED <<suspenseWorkInProgress, suspensePhase, suspenseRenderLane,
                   suspenseHandlerStack, fiberDeletions, containerLane, thenable,
                   hostView, componentCalls>>
    /\ UNCHANGED <<cloneCurrentChild, cloneNewChild, clonePc, childList,
                   currentAtStart>>
    /\ UNCHANGED <<qvars, svars, lvars, evars, hvars, tvars, wvars, rvars>>

\* The promise is resolved by its owner.
ThenableResolves ==
    /\ suspensePhase = "idle"
    /\ ~thenable.settled
    /\ thenable' = [thenable EXCEPT !.settled = TRUE]
    /\ resolvedLog' = [resolvedLog EXCEPT
                         !.waited = thenable.pings # {} /\ 7 \in hostView.nodes]
    /\ UNCHANGED <<suspenseRoot, suspenseWorkInProgress, suspensePhase,
                   suspenseRenderLane, suspenseHandlerStack, fiberDeletions,
                   containerQueue, elementsMade, containerLane, hostView,
                   componentCalls>>
    /\ UNCHANGED cvars
    /\ UNCHANGED <<qvars, svars, lvars, evars, hvars, tvars, wvars, rvars>>

\* fiberThrow.ts ping, for the lanes in a set, one after the other
RECURSIVE pingAll(_, _)
pingAll(fiberRoot, lanes) ==
    IF lanes = {} THEN fiberRoot
    ELSE LET lane == {CHOOSE b \in lanes : TRUE}
             updated == markRootUpdated([fiberRoot EXCEPT !.pingCache = {}], lane)
         IN  pingAll(markRootPinged(updated, lane), lanes \ lane)

\* The callbacks that wait on the settled promise run: the one of
\* trackUsedThenable (thenable.ts) writes the status, then the ping of every
\* lane (fiberThrow.ts attachPingListener) marks the root.
ThenableCallbacks ==
    /\ suspensePhase = "idle"
    /\ thenable.settled
    /\ thenable.status = "pending" \/ thenable.pings # {}
    /\ thenable' = [thenable EXCEPT
                      !.status = IF @ = "pending" THEN "fulfilled" ELSE @,
                      !.pings = {}]
    /\ suspenseRoot' = pingAll(suspenseRoot, thenable.pings)
    /\ resolvedLog' =
         IF resolvedLog.waited /\ thenable.pings # {} /\ 7 \in hostView.nodes
         THEN [waited |-> TRUE, pinged |-> TRUE, external |-> FALSE,
               invoked |-> FALSE]
         ELSE resolvedLog
    /\ UNCHANGED <<suspenseWorkInProgress, suspensePhase, suspenseRenderLane,
                   suspenseHandlerStack, fiberDeletions, containerQueue, elementsMade,
                   containerLane, hostView, componentCalls>>
    /\ UNCHANGED cvars
    /\ UNCHANGED <<qvars, svars, lvars, evars, hvars, tvars, wvars, rvars>>

\* fiber.ts createWorkInProgress, with the field deletions
createWorkInProgressOf(s, current, pendingProps) ==
    [s EXCEPT !.fibers = createWorkInProgress(s.fibers, current, pendingProps),
              !.deletions[WorkInProgressOf(s.fibers, current)] = {}]

\* fiber.ts new FiberNode at a place where no fiber is in use
createFiberAt(s, level, pendingProps, flags, return) ==
    [s EXCEPT !.fibers[SuspenseFiber(level)] =
                  [FiberNode(pendingProps) EXCEPT !.flags = flags, !.return = return],
              !.fibers[AlternateOf(SuspenseFiber(level))] = NoFiber,
              !.deletions[SuspenseFiber(level)] = {},
              !.deletions[AlternateOf(SuspenseFiber(level))] = {}]

\* beginWork.ts reconcileChildren(wip, children) with one element, whose
\* key and type are those of the current child when there is one and whose
\* props are new (childFibers.ts reconcileSingleElement, useFiber,
\* placeSingleChild); level is the place of the child.
reconcileChildrenAt(s, wip, level) ==
    LET current == s.fibers[wip].alternate
        currentFiber == IF current = Null THEN Null ELSE s.fibers[current].child
    IN  IF currentFiber # Null
        THEN LET existing == WorkInProgressOf(s.fibers, currentFiber)
                 s1 == createWorkInProgressOf(
                          s, currentFiber, FreshProps(s.fibers[currentFiber].memoizedProps))
             IN  [s1 EXCEPT !.fibers[existing].sibling = Null,
                            !.fibers[existing].return = wip,
                            !.fibers[wip].child = existing,
                            !.next = existing]
        ELSE LET flags == IF current # Null THEN {"Placement"} ELSE FiberNoFlags
                 s1 == createFiberAt(s, level, 1, flags, wip)
             IN  [s1 EXCEPT !.fibers[wip].child = SuspenseFiber(level),
                            !.next = SuspenseFiber(level)]

\* beginWork.ts bailoutOnAlreadyFinishedWork(wip, renderLane)
bailoutOnAlreadyFinishedWorkOf(s, wip, renderLane) ==
    IF ~includeSomeLanes(s.fibers[wip].childLanes, renderLane)
    THEN [s EXCEPT !.next = Null]
    ELSE LET fs == cloneOnlyChild(s.fibers, wip)
         IN  [s EXCEPT !.fibers = fs, !.next = fs[wip].child]

\* beginWork.ts updateHostRoot(wip, renderLane): the update of the queue has
\* the render lane
updateHostRootOf(s, wip, renderLane) ==
    LET prevChildren == s.fibers[wip].memoizedState
        memoizedState == IF s.containerQueue = Null THEN prevChildren
                         ELSE s.containerQueue
        current == s.fibers[wip].alternate
        s1 == [s EXCEPT !.containerQueue = Null,
                        !.fibers[wip].memoizedState = memoizedState]
        s2 == IF s1.fibers[current].memoizedState = 0
              THEN [s1 EXCEPT !.fibers[current].memoizedState = memoizedState]
              ELSE s1
    IN  IF prevChildren = memoizedState
        THEN bailoutOnAlreadyFinishedWorkOf(s2, wip, renderLane)
        ELSE reconcileChildrenAt(s2, wip, 2)

\* beginWork.ts mountSuspensePrimaryChildren
mountSuspensePrimaryChildren(s, workInProgress_) ==
    LET s1 == createFiberAt(s, 3, OffscreenProps("visible", 0), FiberNoFlags,
                            workInProgress_)
    IN  [s1 EXCEPT !.fibers[workInProgress_].child = SuspenseFiber(3),
                   !.next = SuspenseFiber(3)]

\* beginWork.ts mountSuspenseFallbackChildren
mountSuspenseFallbackChildren(s, workInProgress_) ==
    LET s1 == createFiberAt(s, 3, OffscreenProps("hidden", 0), FiberNoFlags,
                            workInProgress_)
        s2 == createFiberAt(s1, 6, 1, {"Placement"}, workInProgress_)
    IN  [s2 EXCEPT !.fibers[SuspenseFiber(3)].sibling = SuspenseFiber(6),
                   !.fibers[workInProgress_].child = SuspenseFiber(3),
                   !.next = SuspenseFiber(6)]

\* beginWork.ts updateSuspensePrimaryChildren
updateSuspensePrimaryChildren(s, workInProgress_) ==
    LET current == s.fibers[workInProgress_].alternate
        currentPrimaryChildFragment == s.fibers[current].child
        currentFallbackChildFragment == s.fibers[currentPrimaryChildFragment].sibling
        primaryChildFragment == WorkInProgressOf(s.fibers, currentPrimaryChildFragment)
        s1 == createWorkInProgressOf(
                 s, currentPrimaryChildFragment,
                 OffscreenProps("visible",
                                s.fibers[currentPrimaryChildFragment].pendingProps))
        s2 == [s1 EXCEPT !.fibers[primaryChildFragment].return = workInProgress_,
                         !.fibers[primaryChildFragment].sibling = Null,
                         !.fibers[workInProgress_].child = primaryChildFragment,
                         !.next = primaryChildFragment]
    IN  IF currentFallbackChildFragment = Null THEN s2
        ELSE IF s2.deletions[workInProgress_] = {}
        THEN [s2 EXCEPT !.deletions[workInProgress_] = {currentFallbackChildFragment},
                        !.fibers[workInProgress_].flags = @ \cup {"ChildDeletion"}]
        ELSE [s2 EXCEPT !.deletions[workInProgress_] = @ \cup {currentFallbackChildFragment}]

\* beginWork.ts updateSuspenseFallbackChildren
updateSuspenseFallbackChildren(s, workInProgress_) ==
    LET current == s.fibers[workInProgress_].alternate
        currentPrimaryChildFragment == s.fibers[current].child
        currentFallbackChildFragment == s.fibers[currentPrimaryChildFragment].sibling
        primaryChildFragment == WorkInProgressOf(s.fibers, currentPrimaryChildFragment)
        s1 == createWorkInProgressOf(
                 s, currentPrimaryChildFragment,
                 OffscreenProps("hidden",
                                s.fibers[currentPrimaryChildFragment].pendingProps))
        fallbackChildFragment ==
            IF currentFallbackChildFragment # Null
            THEN WorkInProgressOf(s1.fibers, currentFallbackChildFragment)
            ELSE SuspenseFiber(6)
        s2 == IF currentFallbackChildFragment # Null
              THEN createWorkInProgressOf(
                      s1, currentFallbackChildFragment,
                      FreshProps(s1.fibers[currentFallbackChildFragment].memoizedProps))
              ELSE createFiberAt(s1, 6, 1, {"Placement"}, workInProgress_)
    IN  [s2 EXCEPT !.fibers[fallbackChildFragment].return = workInProgress_,
                   !.fibers[primaryChildFragment].return = workInProgress_,
                   !.fibers[primaryChildFragment].sibling = fallbackChildFragment,
                   !.fibers[workInProgress_].child = primaryChildFragment,
                   !.next = fallbackChildFragment]

\* beginWork.ts updateSuspenseComponent(workInProgress)
updateSuspenseComponent(s, workInProgress_) ==
    LET current == s.fibers[workInProgress_].alternate
        didSuspend == "DidCapture" \in s.fibers[workInProgress_].flags
        showFallback == didSuspend
        s1 == [s EXCEPT !.fibers[workInProgress_].flags = @ \ {"DidCapture"},
                        !.stack = Append(@, workInProgress_)]
    IN  IF current = Null
        THEN IF showFallback THEN mountSuspenseFallbackChildren(s1, workInProgress_)
             ELSE mountSuspensePrimaryChildren(s1, workInProgress_)
        ELSE IF showFallback THEN updateSuspenseFallbackChildren(s1, workInProgress_)
             ELSE updateSuspensePrimaryChildren(s1, workInProgress_)

\* beginWork.ts updateFunctionComponent(wip, Component, renderLane) for Cpn:
\* renderWithHooks calls Cpn, which calls use(thenable) (fiberHooks.ts use,
\* thenable.ts trackUsedThenable) and returns <div/>.
updateFunctionComponentOf(s, wip, renderLane, didReceiveUpdate) ==
    LET s1 == [s EXCEPT !.calls = @ + 1, !.invoked = TRUE]
    IN  IF s.thenable.status # "fulfilled"
        THEN \* the status becomes pending, SuspenseException is thrown
             [s1 EXCEPT !.thenable.status = "pending", !.thrown = TRUE, !.next = wip]
        ELSE LET current == s.fibers[wip].alternate
             IN  IF current # Null /\ ~didReceiveUpdate
                 THEN bailoutOnAlreadyFinishedWorkOf(
                         [s1 EXCEPT !.fibers[current].lanes = removeLanes(@, renderLane)],
                         wip, renderLane)
                 ELSE reconcileChildrenAt(s1, wip, 5)

\* beginWork.ts beginWork(wip, renderLane)
beginWorkOf(s, wip, renderLane) ==
    LET current == s.fibers[wip].alternate
        didReceiveUpdate ==
            current # Null /\ s.fibers[current].memoizedProps # s.fibers[wip].pendingProps
        tag == SuspenseTagOf(wip)
    IN  IF /\ current # Null
           /\ ~didReceiveUpdate
           /\ ~includeSomeLanes(s.fibers[current].lanes, renderLane)
        THEN bailoutOnAlreadyFinishedWorkOf(s, wip, renderLane)
        ELSE LET s1 == [s EXCEPT !.fibers[wip].lanes = NoLanes]
             IN  IF tag = "HostRoot" THEN updateHostRootOf(s1, wip, renderLane)
                 ELSE IF tag = "SuspenseComponent" THEN updateSuspenseComponent(s1, wip)
                 ELSE IF tag = "OffscreenComponent" THEN reconcileChildrenAt(s1, wip, 4)
                 ELSE IF tag = "FunctionComponent"
                 THEN updateFunctionComponentOf(s1, wip, renderLane, didReceiveUpdate)
                 ELSE IF tag = "Fragment" THEN reconcileChildrenAt(s1, wip, 7)
                 ELSE \* updateHostComponent: div and p have no children
                      [s1 EXCEPT !.fibers[wip].child = Null, !.next = Null]

\* The fibers of a list of siblings, from fiber f on
RECURSIVE SiblingsFrom(_, _)
SiblingsFrom(fs, f) ==
    IF f = Null THEN {} ELSE {f} \cup SiblingsFrom(fs, fs[f].sibling)

\* completeWork.ts bubbleProperties(wip)
bubblePropertiesOf(fs, wip) ==
    LET children == SiblingsFrom(fs, fs[wip].child)
    IN  [f \in DOMAIN fs |->
           IF f = wip
           THEN [fs[f] EXCEPT
                   !.subtreeFlags = @ \cup UNION {fs[c].subtreeFlags \cup fs[c].flags :
                                                   c \in children},
                   !.childLanes = UNION {mergeLanes(fs[c].lanes, fs[c].childLanes) :
                                          c \in children}]
           ELSE IF f \in children THEN [fs[f] EXCEPT !.return = wip]
           ELSE fs[f]]

\* completeWork.ts completeWork(wip); a host fiber that has a current fiber
\* has a stateNode
completeWorkOf(s, wip) ==
    LET fs == s.fibers
        tag == SuspenseTagOf(wip)
    IN  IF tag = "HostComponent"
        THEN [s EXCEPT !.fibers =
                 bubblePropertiesOf(
                    IF fs[wip].alternate # Null
                    THEN [fs EXCEPT ![wip].flags = @ \cup {"Update"}] ELSE fs, wip)]
        ELSE IF tag = "SuspenseComponent"
        THEN LET offscreenFiber == fs[wip].child
                 isHidden == ModeOf(fs[offscreenFiber].pendingProps) = "hidden"
                 currentOffscreenFiber == fs[offscreenFiber].alternate
                 changed ==
                     IF currentOffscreenFiber # Null
                     THEN isHidden # (ModeOf(fs[currentOffscreenFiber].pendingProps)
                                         = "hidden")
                     ELSE isHidden
                 fs1 == IF changed
                        THEN bubblePropertiesOf(
                                [fs EXCEPT ![offscreenFiber].flags = @ \cup {"Visibility"}],
                                offscreenFiber)
                        ELSE fs
             IN  [s EXCEPT !.stack = SubSeq(@, 1, Len(@) - 1),
                           !.fibers = bubblePropertiesOf(fs1, wip)]
        ELSE [s EXCEPT !.fibers = bubblePropertiesOf(fs, wip)]

\* workLoop.ts completeUnitOfWork(fiber); next is the new workInProgress
RECURSIVE completeUnitOfWorkOf(_, _)
completeUnitOfWorkOf(s, node) ==
    IF node = Null THEN [s EXCEPT !.next = Null]
    ELSE LET done == completeWorkOf(s, node)
             sibling == done.fibers[node].sibling
         IN  IF sibling # Null THEN [done EXCEPT !.next = sibling]
             ELSE completeUnitOfWorkOf(done, done.fibers[node].return)

\* workLoop.ts prepareFreshStack(root, lane), from renderRoot, for the lane
\* that getNextLane selects
PrepareFreshStackOf ==
    /\ suspensePhase = "idle"
    /\ getNextLane(suspenseRoot) # NoLane
    /\ fibers' = createWorkInProgress(
                    fibers, suspenseRoot.current,
                    FreshProps(fibers[suspenseRoot.current].memoizedProps))
    /\ fiberDeletions' = [fiberDeletions EXCEPT
                        ![WorkInProgressOf(fibers, suspenseRoot.current)] = {}]
    /\ suspenseWorkInProgress' = WorkInProgressOf(fibers, suspenseRoot.current)
    /\ suspenseRenderLane' = getNextLane(suspenseRoot)
    /\ suspensePhase' = "render"
    /\ UNCHANGED <<suspenseRoot, suspenseHandlerStack, containerQueue,
                   elementsMade, containerLane, thenable, hostView, componentCalls,
                   resolvedLog>>
    /\ UNCHANGED <<cloneCurrentChild, cloneNewChild, clonePc, childList,
                   currentAtStart>>
    /\ UNCHANGED <<qvars, svars, lvars, evars, hvars, tvars, wvars, rvars>>

\* workLoop.ts performUnitOfWork(workInProgress), in the try of renderRoot
PerformUnitOfWorkOf ==
    /\ suspensePhase = "render"
    /\ suspenseWorkInProgress # Null
    /\ LET fiber == suspenseWorkInProgress
           s == beginWorkOf(SuspenseMachine, fiber, suspenseRenderLane)
           s1 == [s EXCEPT !.fibers[fiber].memoizedProps = s.fibers[fiber].pendingProps]
           s2 == IF s.thrown THEN s
                 ELSE IF s.next = Null THEN completeUnitOfWorkOf(s1, fiber)
                 ELSE s1
       IN  /\ fibers' = s2.fibers
           /\ fiberDeletions' = s2.deletions
           /\ containerQueue' = s2.containerQueue
           /\ thenable' = s2.thenable
           /\ suspenseHandlerStack' = s2.stack
           /\ componentCalls' = s2.calls
           /\ resolvedLog' = [resolvedLog EXCEPT
                                !.invoked = IF resolvedLog.pinged THEN s2.invoked ELSE @]
           /\ suspenseWorkInProgress' = s2.next
           /\ suspensePhase' = IF s.thrown THEN "thrown"
                               ELSE IF s2.next = Null THEN "finished"
                               ELSE "render"
    /\ UNCHANGED <<suspenseRoot, suspenseRenderLane, elementsMade, containerLane,
                   hostView>>
    /\ UNCHANGED <<cloneCurrentChild, cloneNewChild, clonePc, childList,
                   currentAtStart>>
    /\ UNCHANGED <<qvars, svars, lvars, evars, hvars, tvars, wvars, rvars>>

\* fiberUnwindWork.ts unwindWork(wip) in the loop of workLoop.ts
\* unwindUnitOfWork(unitOfWork): next is the boundary that has captured, or
\* Null when the loop has left the root
RECURSIVE unwindUnitOfWork(_, _)
unwindUnitOfWork(s, incompleteWork) ==
    IF incompleteWork = Null THEN [s EXCEPT !.next = Null]
    ELSE LET flags == s.fibers[incompleteWork].flags
             isBoundary == SuspenseTagOf(incompleteWork) = "SuspenseComponent"
             s1 == IF isBoundary
                   THEN [s EXCEPT !.stack = SubSeq(@, 1, Len(@) - 1)]
                   ELSE s
         IN  IF isBoundary /\ "ShouldCapture" \in flags /\ "DidCapture" \notin flags
             THEN [s1 EXCEPT
                     !.fibers[incompleteWork].flags =
                         ((flags \ {"ShouldCapture"}) \cup {"DidCapture"})
                             \cap HostEffectMask,
                     !.next = incompleteWork]
             ELSE LET returnFiber == s1.fibers[incompleteWork].return
                  IN  IF returnFiber = Null THEN [s1 EXCEPT !.next = Null]
                      ELSE unwindUnitOfWork(
                              [s1 EXCEPT !.deletions[returnFiber] = {}], returnFiber)

\* fiberThrow.ts throwException(root, value, lane) with attachPingListener
throwException(s, lane) ==
    LET suspenseBoundary == IF s.stack = <<>> THEN Null ELSE s.stack[Len(s.stack)]
        s1 == IF suspenseBoundary # Null
              THEN [s EXCEPT !.fibers[suspenseBoundary].flags = @ \cup {"ShouldCapture"}]
              ELSE s
    IN  IF lane \subseteq s.root.pingCache THEN s1
        ELSE [s1 EXCEPT !.root.pingCache = @ \cup lane,
                        !.thenable.pings = @ \cup lane]

\* workLoop.ts handleThrow and, in the next turn of the loop of renderRoot,
\* throwAndUnwindWorkLoop(root, workInProgress, thrownValue, lane); when no
\* boundary captures, renderRoot returns RootDidNotComplete and
\* performSyncWorkOnRoot marks the lane suspended
ThrowAndUnwindWorkLoop ==
    /\ suspensePhase = "thrown"
    /\ LET s == unwindUnitOfWork(throwException(SuspenseMachine, suspenseRenderLane),
                                 suspenseWorkInProgress)
       IN  /\ fibers' = s.fibers
           /\ fiberDeletions' = s.deletions
           /\ thenable' = s.thenable
           /\ suspenseHandlerStack' = s.stack
           /\ suspenseWorkInProgress' = s.next
           /\ suspensePhase' = IF s.next = Null THEN "idle" ELSE "render"
           /\ suspenseRoot' = IF s.next = Null
                              THEN markRootSuspended(s.root, suspenseRenderLane)
                              ELSE s.root
           /\ suspenseRenderLane' = IF s.next = Null THEN NoLane ELSE suspenseRenderLane
    /\ UNCHANGED <<containerQueue, elementsMade, containerLane, hostView,
                   componentCalls, resolvedLog>>
    /\ UNCHANGED <<cloneCurrentChild, cloneNewChild, clonePc, childList,
                   currentAtStart>>
    /\ UNCHANGED <<qvars, svars, lvars, evars, hvars, tvars, wvars, rvars>>

\* commitWork.ts commitEffects: the fibers that the traversal of the
\* mutation phase calls commitMutationEffectsOnFiber on, from fiber f on
RECURSIVE CommitVisitsOf(_, _)
CommitVisitsOf(fs, f) ==
    IF fs[f].subtreeFlags \cap SuspenseMutationMask # {} /\ fs[f].child # Null
    THEN {f} \cup UNION {CommitVisitsOf(fs, c) : c \in SiblingsFrom(fs, fs[f].child)}
    ELSE {f}

\* commitWork.ts: the places of the host fibers in the subtree of fiber f,
\* which commitPlacement inserts and commitDeletion removes
RECURSIVE HostNodesIn(_, _)
HostNodesIn(fs, f) ==
    IF SuspenseTagOf(f) = "HostComponent" THEN {LevelOf(f)}
    ELSE UNION {HostNodesIn(fs, c) : c \in SiblingsFrom(fs, fs[f].child)}

\* workLoop.ts commitRoot(root) with commitMutationEffects
CommitRootOf ==
    /\ suspensePhase = "finished"
    /\ LET finishedWork == fibers[suspenseRoot.current].alternate
           hasEffect == (fibers[finishedWork].subtreeFlags \cup fibers[finishedWork].flags)
                           \cap SuspenseMutationMask # {}
           visits == IF hasEffect THEN CommitVisitsOf(fibers, finishedWork) ELSE {}
           placed == UNION {HostNodesIn(fibers, f) :
                              f \in {v \in visits : "Placement" \in fibers[v].flags}}
           removed == UNION {HostNodesIn(fibers, d) :
                               d \in UNION {fiberDeletions[v] :
                                   v \in {w \in visits : "ChildDeletion" \in fibers[w].flags}}}
           toggled == {v \in visits : /\ "Visibility" \in fibers[v].flags
                                      /\ SuspenseTagOf(v) = "OffscreenComponent"}
           hiddenNow == UNION {HostNodesIn(fibers, v) :
                                 v \in {w \in toggled :
                                          ModeOf(fibers[w].pendingProps) = "hidden"}}
           shownNow == UNION {HostNodesIn(fibers, v) :
                                v \in {w \in toggled :
                                         ModeOf(fibers[w].pendingProps) = "visible"}}
       IN  /\ fibers' = [f \in DOMAIN fibers |->
                           IF f \in visits
                           THEN [fibers[f] EXCEPT
                                   !.flags = @ \ ({"Placement", "Update", "ChildDeletion"}
                                                  \cup IF f \in toggled THEN {"Visibility"}
                                                       ELSE {})]
                           ELSE fibers[f]]
           /\ hostView' = [nodes |-> (hostView.nodes \cup placed) \ removed,
                           hidden |-> (hostView.hidden \cup hiddenNow) \ shownNow]
           /\ suspenseRoot' = [markRootFinished(suspenseRoot, suspenseRenderLane)
                                 EXCEPT !.current = finishedWork]
    /\ suspensePhase' = "idle"
    /\ suspenseRenderLane' = NoLane
    /\ UNCHANGED <<suspenseWorkInProgress, suspenseHandlerStack, fiberDeletions,
                   containerQueue, elementsMade, containerLane, thenable,
                   componentCalls, resolvedLog>>
    /\ UNCHANGED <<cloneCurrentChild, cloneNewChild, clonePc, childList,
                   currentAtStart>>
    /\ UNCHANGED <<qvars, svars, lvars, evars, hvars, tvars, wvars, rvars>>

UNext ==
    \/ RenderAgain
    \/ ThenableResolves
    \/ ThenableCallbacks
    \/ PrepareFreshStackOf
    \/ PerformUnitOfWorkOf
    \/ ThrowAndUnwindWorkLoop
    \/ CommitRootOf

\* ------------------------------------------------------------------------
\* Properties of SpecSuspense
\* ------------------------------------------------------------------------
\* C13: when the fallback of the boundary has been committed and the
\* thenable has resolved, then with no further call of render a pass runs
\* that calls the suspended component again, and once no lane is left to
\* render the fallback is removed from the container and the primary content
\* is in it and visible.
C13_ResolvedShowsPrimary ==
    (/\ resolvedLog.pinged
     /\ ~resolvedLog.external
     /\ suspensePhase = "idle"
     /\ getNextLane(suspenseRoot) = NoLane) =>
        /\ resolvedLog.invoked
        /\ 7 \notin hostView.nodes
        /\ 5 \in hostView.nodes
        /\ 5 \notin hostView.hidden

\* ========================================================================
\* SpecRef: the ref of one host child of the root over render passes and
\* commits (childFibers.ts, fiber.ts, beginWork.ts, completeWork.ts,
\* commitWork.ts).
\*
\* root.render is called with an element <div ref=.../> or <p ref=.../>
\* without a key; the ref of an element is null (0) or one of two ref
\* objects.  The host instance that a pass creates is named by the number of
\* the pass.
\* ========================================================================
RefObjects == {"refA", "refB"}

NoRef == "null"

HostTypes == {"div", "p"}

RInit ==
    /\ hostFiber = [type |-> "none", ref |-> NoRef, stateNode |-> 0,
                    elementRef |-> NoRef]
    /\ finishedHost = [type |-> "none", ref |-> NoRef, stateNode |-> 0,
                       elementRef |-> NoRef, flags |-> {}, deletion |-> FALSE]
    /\ prevHostFiber = hostFiber
    /\ refCurrent = [r \in RefObjects |-> 0]
    /\ refPhase = "idle"
    /\ refLog = <<>>
    /\ refRenders = 0

\* fiber.ts createWorkInProgress(current, pendingProps), called by useFiber:
\* the fiber takes the ref of current, the ref of the element is not read
createWorkInProgressOfHost(current, element) ==
    [type |-> current.type, ref |-> current.ref, stateNode |-> current.stateNode,
     elementRef |-> element.ref, flags |-> {}, deletion |-> FALSE]

\* fiber.ts createFiberFromElement(element): fiber.ref = ref
createFiberFromElement(element, deletion) ==
    [type |-> element.type, ref |-> element.ref, stateNode |-> 0,
     elementRef |-> element.ref, flags |-> {"Placement"}, deletion |-> deletion]

\* childFibers.ts reconcileSingleElement and placeSingleChild
reconcileHostElement(current, element) ==
    IF current.stateNode # 0 /\ current.type = element.type
    THEN createWorkInProgressOfHost(current, element)
    ELSE createFiberFromElement(element, current.stateNode # 0)

\* beginWork.ts markRef(current, workInProgress), called by
\* updateHostComponent
markRef(current, wip) ==
    IF \/ wip.flags \cap {"Placement"} # {} /\ wip.ref # NoRef
       \/ wip.flags \cap {"Placement"} = {} /\ current.ref # wip.ref
    THEN [wip EXCEPT !.flags = @ \cup {"Ref"}]
    ELSE wip

\* completeWork.ts, case HostComponent: an update marks Update, and Ref when
\* the ref differs from the ref of current; a mount creates the instance
\* and marks Ref when the fiber has a ref
completeWorkOfHost(current, wip, instance) ==
    IF wip.flags \cap {"Placement"} = {}
    THEN [wip EXCEPT !.flags = @ \cup {"Update"}
                                 \cup (IF current.ref # wip.ref THEN {"Ref"} ELSE {})]
    ELSE [wip EXCEPT !.stateNode = instance,
                     !.flags = @ \cup (IF wip.ref # NoRef THEN {"Ref"} ELSE {})]

\* a render pass of root.render(element)
RenderHostElement ==
    /\ refPhase = "idle"
    /\ refRenders < MaxRefRenders
    /\ refRenders' = refRenders + 1
    /\ \E type \in HostTypes, ref \in RefObjects \cup {NoRef} :
          LET element == [type |-> type, ref |-> ref]
              wip == reconcileHostElement(hostFiber, element)
          IN  finishedHost' = completeWorkOfHost(hostFiber,
                                  markRef(hostFiber, wip), refRenders + 1)
    /\ refPhase' = "mutation"
    /\ refLog' = <<>>
    /\ UNCHANGED <<hostFiber, prevHostFiber, refCurrent>>
    /\ UNCHANGED <<qvars, svars, lvars, evars, hvars, cvars, tvars, uvars, wvars>>

\* commitWork.ts safelyDetachRef(fiber) on the state of the ref objects and
\* the log
safelyDetachRef(st, fiber, phase) ==
    IF fiber.ref = NoRef THEN st
    ELSE [current |-> [st.current EXCEPT ![fiber.ref] = 0],
          log |-> Append(st.log, [op |-> "detach", ref |-> fiber.ref,
                                  phase |-> phase])]

\* commitWork.ts safelyAttachRef(fiber)
safelyAttachRef(st, fiber, phase) ==
    IF fiber.ref = NoRef THEN st
    ELSE [current |-> [st.current EXCEPT ![fiber.ref] = fiber.stateNode],
          log |-> Append(st.log, [op |-> "attach", ref |-> fiber.ref,
                                  phase |-> phase])]

\* commitMutationEffects: commitMutationEffectsOnFiber of the finished
\* fiber (safelyDetachRef(finishedWork) when it has Ref), then of the
\* HostRoot, whose ChildDeletion detaches the ref of the deleted fiber
\* (commitDeletion); root.current = finishedWork
CommitMutationOfHost ==
    /\ refPhase = "mutation"
    /\ LET st0 == [current |-> refCurrent, log |-> refLog]
           st1 == IF "Ref" \in finishedHost.flags
                  THEN safelyDetachRef(st0, finishedHost, "mutation")
                  ELSE st0
           st2 == IF finishedHost.deletion
                  THEN safelyDetachRef(st1, hostFiber, "mutation")
                  ELSE st1
       IN  /\ refCurrent' = st2.current
           /\ refLog' = st2.log
    /\ prevHostFiber' = hostFiber
    /\ hostFiber' = [type |-> finishedHost.type, ref |-> finishedHost.ref,
                     stateNode |-> finishedHost.stateNode,
                     elementRef |-> finishedHost.elementRef]
    /\ refPhase' = "layout"
    /\ UNCHANGED <<finishedHost, refRenders>>
    /\ UNCHANGED <<qvars, svars, lvars, evars, hvars, cvars, tvars, uvars, wvars>>

\* commitLayoutEffects: commitLayoutEffectsOnFiber of the finished fiber
CommitLayoutOfHost ==
    /\ refPhase = "layout"
    /\ LET st0 == [current |-> refCurrent, log |-> refLog]
           st1 == IF "Ref" \in finishedHost.flags
                  THEN safelyAttachRef(st0, finishedHost, "layout")
                  ELSE st0
       IN  /\ refCurrent' = st1.current
           /\ refLog' = st1.log
    /\ refPhase' = "idle"
    /\ UNCHANGED <<hostFiber, finishedHost, prevHostFiber, refRenders>>
    /\ UNCHANGED <<qvars, svars, lvars, evars, hvars, cvars, tvars, uvars, wvars>>

RNext ==
    \/ RenderHostElement
    \/ CommitMutationOfHost
    \/ CommitLayoutOfHost

\* the last commit has updated the host node (the same instance) from an
\* element with one ref to an element with another ref
RefChanged ==
    /\ refPhase = "idle"
    /\ prevHostFiber.stateNode # 0
    /\ hostFiber.stateNode = prevHostFiber.stateNode
    /\ prevHostFiber.elementRef # NoRef
    /\ hostFiber.elementRef # NoRef
    /\ hostFiber.elementRef # prevHostFiber.elementRef

\* C38: when a commit has changed the ref of a host node from an old ref to
\* a new ref, the commit has detached the old ref in its mutation part
\* before it has attached the new ref in its layout part, and the new ref
\* holds the host instance.
C38_RefReattached ==
    RefChanged =>
        /\ \E i, j \in DOMAIN refLog :
              /\ i < j
              /\ refLog[i] = [op |-> "detach", ref |-> prevHostFiber.elementRef,
                              phase |-> "mutation"]
              /\ refLog[j] = [op |-> "attach", ref |-> hostFiber.elementRef,
                              phase |-> "layout"]
        /\ refCurrent[hostFiber.elementRef] = hostFiber.stateNode

\* ========================================================================
\* SpecUnwind: the work loop seen on the path from the HostRoot to
\* workInProgress, with the stack of suspenseContext.ts: beginWork and
\* completeWork of the fibers of the path, a function component that throws
\* a thenable, and the unwind (beginWork.ts, completeWork.ts,
\* fiberUnwindWork.ts, fiberThrow.ts, suspenseContext.ts, workLoop.ts).
\* A fiber is named by its depth on the path; the subtrees the loop has
\* completed are not kept.
\* ========================================================================
PathFiber(tag) ==
    [tag |-> tag, flags |-> {}, showFallback |-> FALSE, hasChild |-> FALSE,
     value |-> "none"]

\* the values of the prop value of a Provider of the context, and the
\* default value of the context
ContextValues == {"a", "b"}

DefaultValue == "default"

\* the tags a child of the fiber can have: the child of a Suspense that
\* beginWork returns is the Offscreen of the primary children or the
\* Fragment of the fallback
ChildTags(parent) ==
    IF parent.tag = "SuspenseComponent"
    THEN (IF parent.showFallback THEN {"Fragment"} ELSE {"OffscreenComponent"})
    ELSE {"SuspenseComponent", "FunctionComponent", "HostComponent",
          "ContextProvider"}

\* suspenseContext.ts
getSuspenseHandler(handlers) ==
    IF handlers = <<>> THEN Null ELSE handlers[Len(handlers)]

pushSuspenseHandler(handlers, handler) == Append(handlers, handler)

popSuspenseHandler(handlers) ==
    IF handlers = <<>> THEN <<>> ELSE SubSeq(handlers, 1, Len(handlers) - 1)

\* fiberContext.ts pushProvider, popProvider and readContext, for one
\* context: the stack of the values of the providers that are entered and
\* not left; a read gives the top entry, the default without one
pushProvider(providers, newValue) == Append(providers, newValue)

popProvider(providers) ==
    IF providers = <<>> THEN <<>> ELSE SubSeq(providers, 1, Len(providers) - 1)

readContext(providers) ==
    IF providers = <<>> THEN DefaultValue ELSE providers[Len(providers)]

\* beginWork.ts updateContextProvider(wip), and the ContextProvider case of
\* the bailout of beginWork, of the fiber at the end of the path
updateContextProviderAt(w, newValue) ==
    [w EXCEPT !.path[Len(w.path)].value = newValue,
              !.providers = pushProvider(@, newValue)]

\* beginWork.ts updateSuspenseComponent(wip) of the fiber at the end of the
\* path
updateSuspenseComponentAt(w) ==
    LET depth == Len(w.path)
        didSuspend == "DidCapture" \in w.path[depth].flags
    IN  [w EXCEPT !.path[depth].showFallback = didSuspend,
                  !.path[depth].flags = @ \ {"DidCapture"},
                  !.path[depth].hasChild = FALSE,
                  !.handlers = pushSuspenseHandler(@, depth)]

\* fiberUnwindWork.ts unwindWork(wip) of the fiber at the end of the path;
\* captured tells that it returns the fiber
unwindWork(w) ==
    LET depth == Len(w.path)
        flags == w.path[depth].flags
    IN  IF w.path[depth].tag = "SuspenseComponent"
        THEN LET popped == [w EXCEPT !.handlers = popSuspenseHandler(@)]
             IN  IF "ShouldCapture" \in flags /\ "DidCapture" \notin flags
                 THEN [popped EXCEPT
                         !.path[depth].flags = (flags \ {"ShouldCapture"}) \cup {"DidCapture"},
                         !.captured = TRUE]
                 ELSE popped
        ELSE IF w.path[depth].tag = "ContextProvider"
        THEN [w EXCEPT !.providers = popProvider(@)]
        ELSE w

\* workLoop.ts unwindUnitOfWork(unitOfWork) from the fiber at the end of the
\* path
RECURSIVE unwindUnitOfWorkAt(_)
unwindUnitOfWorkAt(w) ==
    IF w.path = <<>> THEN [w EXCEPT !.phase = "didNotComplete"]
    ELSE LET next == unwindWork(w)
         IN  IF next.captured
             THEN [next EXCEPT !.path[Len(w.path)].flags = @ \cap HostEffectMask,
                               !.phase = "capture"]
             ELSE unwindUnitOfWorkAt(
                     [next EXCEPT !.path = SubSeq(@, 1, Len(@) - 1)])

\* fiberThrow.ts throwException(root, value, lane)
throwExceptionAt(w) ==
    LET suspenseBoundary == getSuspenseHandler(w.handlers)
    IN  IF suspenseBoundary # Null /\ suspenseBoundary \in DOMAIN w.path
        THEN [w EXCEPT !.path[suspenseBoundary].flags = @ \cup {"ShouldCapture"}]
        ELSE w

UnwindMachine ==
    [path |-> unwindPath, handlers |-> handlerStack, phase |-> unwindPhase,
     captured |-> FALSE, providers |-> providerStack]

\* The first pass, at its HostRoot
WInit ==
    /\ unwindPath = <<PathFiber("HostRoot")>>
    /\ handlerStack = <<>>
    /\ unwindPhase = "render"
    /\ hasCurrent = FALSE
    /\ errorReruns = 0
    /\ providerStack = <<>>

WIdle ==
    /\ unwindPath = <<>>
    /\ handlerStack = <<>>
    /\ unwindPhase = "idle"
    /\ hasCurrent = FALSE
    /\ errorReruns = 0
    /\ providerStack = <<>>

\* what the beginWork of a unit of work ends in: it returns, it throws the
\* SuspenseException, it throws another value
UnitOutcomes == {"render", "thrown", "threwError"}

\* performUnitOfWork: beginWork of a child of workInProgress that is
\* rendered.  A function component may throw a thenable (the catch of
\* renderRoot and handleThrow then set workInProgressSuspendedReason) or an
\* error.
BeginWorkOnPath ==
    /\ unwindPhase = "render"
    /\ \E tag \in ChildTags(unwindPath[Len(unwindPath)]), outcome \in UnitOutcomes,
          newValue \in ContextValues :
          /\ outcome # "render" => tag = "FunctionComponent"
          /\ tag # "ContextProvider" => newValue = "a"
          /\ Len(unwindPath) + (IF tag = "SuspenseComponent" THEN 2 ELSE 1)
                <= MaxUnwindDepth
          /\ LET begun == [UnwindMachine EXCEPT
                              !.path = Append([@ EXCEPT ![Len(@)].hasChild = TRUE],
                                              PathFiber(tag))]
                 w == IF tag = "SuspenseComponent"
                      THEN updateSuspenseComponentAt(begun)
                      ELSE IF tag = "ContextProvider"
                      THEN updateContextProviderAt(begun, newValue)
                      ELSE begun
             IN  /\ unwindPath' = w.path
                 /\ handlerStack' = w.handlers
                 /\ providerStack' = w.providers
                 /\ unwindPhase' = outcome
    /\ UNCHANGED <<hasCurrent, errorReruns>>
    /\ UNCHANGED <<qvars, svars, lvars, evars, hvars, cvars, tvars, uvars, rvars>>

\* performUnitOfWork of a child Suspense whose element is the one of the
\* committed pass: beginWork bails out (beginWork.ts 94-124, no handler is
\* pushed), bailoutOnAlreadyFinishedWork returns null and completeWork pops
\* the stack of suspense handlers.
BailoutSuspenseOnPath ==
    /\ unwindPhase = "render"
    /\ hasCurrent
    /\ "SuspenseComponent" \in ChildTags(unwindPath[Len(unwindPath)])
    /\ unwindPath' = [unwindPath EXCEPT ![Len(unwindPath)].hasChild = TRUE]
    /\ handlerStack' = popSuspenseHandler(handlerStack)
    /\ UNCHANGED <<unwindPhase, hasCurrent, errorReruns, providerStack>>
    /\ UNCHANGED <<qvars, svars, lvars, evars, hvars, cvars, tvars, uvars, rvars>>

\* completeUnitOfWork: completeWork of workInProgress, whose children are
\* completed; after the HostRoot the pass is completed
CompleteWorkOnPath ==
    /\ unwindPhase = "render"
    /\ LET depth == Len(unwindPath)
           fiber == unwindPath[depth]
       IN  /\ fiber.tag \in {"HostRoot", "SuspenseComponent"} => fiber.hasChild
           /\ unwindPath' = SubSeq(unwindPath, 1, depth - 1)
           /\ handlerStack' = IF fiber.tag = "SuspenseComponent"
                              THEN popSuspenseHandler(handlerStack)
                              ELSE handlerStack
           /\ providerStack' = IF fiber.tag = "ContextProvider"
                               THEN popProvider(providerStack)
                               ELSE providerStack
           /\ unwindPhase' = IF depth = 1 THEN "completed" ELSE "render"
    /\ UNCHANGED <<hasCurrent, errorReruns>>
    /\ UNCHANGED <<qvars, svars, lvars, evars, hvars, cvars, tvars, uvars, rvars>>

\* workLoop.ts throwAndUnwindWorkLoop(root, workInProgress, thrownValue, lane)
ThrowAndUnwindOnPath ==
    /\ unwindPhase = "thrown"
    /\ LET w == unwindUnitOfWorkAt(throwExceptionAt(UnwindMachine))
       IN  /\ unwindPath' = w.path
           /\ handlerStack' = w.handlers
           /\ providerStack' = w.providers
           /\ unwindPhase' = w.phase
    /\ UNCHANGED <<hasCurrent, errorReruns>>
    /\ UNCHANGED <<qvars, svars, lvars, evars, hvars, cvars, tvars, uvars, rvars>>

\* performUnitOfWork of the boundary that captured: beginWork does not bail
\* out where it did not before
BeginCapturedBoundary ==
    /\ unwindPhase = "capture"
    /\ LET w == updateSuspenseComponentAt(UnwindMachine)
       IN  /\ unwindPath' = w.path
           /\ handlerStack' = w.handlers
    /\ unwindPhase' = "render"
    /\ UNCHANGED <<hasCurrent, errorReruns, providerStack>>
    /\ UNCHANGED <<qvars, svars, lvars, evars, hvars, cvars, tvars, uvars, rvars>>

\* workLoop.ts renderRoot and handleThrow after the throw of a value that is
\* not the SuspenseException: workInProgressSuspendedReason stays
\* NotSuspended, so the next turn of the do-while loop skips
\* throwAndUnwindWorkLoop and calls the work loop, which runs
\* performUnitOfWork on the same workInProgress.
RerunUnitOfWork ==
    /\ unwindPhase = "threwError"
    /\ \E outcome \in UnitOutcomes : unwindPhase' = outcome
    /\ errorReruns' = IF errorReruns < MaxErrorReruns THEN errorReruns + 1
                      ELSE errorReruns
    /\ UNCHANGED <<unwindPath, handlerStack, hasCurrent, providerStack>>
    /\ UNCHANGED <<qvars, svars, lvars, evars, hvars, cvars, tvars, uvars, rvars>>

\* the next pass: prepareFreshStack after a commit or after a pass that did
\* not complete
PrepareFreshStackOnPath ==
    /\ unwindPhase \in {"completed", "didNotComplete"}
    /\ unwindPath' = <<PathFiber("HostRoot")>>
    /\ unwindPhase' = "render"
    /\ hasCurrent' = (hasCurrent \/ unwindPhase = "completed")
    /\ errorReruns' = 0
    /\ UNCHANGED <<handlerStack, providerStack>>
    /\ UNCHANGED <<qvars, svars, lvars, evars, hvars, cvars, tvars, uvars, rvars>>

\* A pass that has yielded is given up: workLoopConcurrent has returned
\* between two units of work, and the next call of renderRoot is for another
\* lane, so that it begins with prepareFreshStack, which sets workInProgress
\* to a new HostRoot and leaves the stacks as they are.
RestartInterruptedPass ==
    /\ unwindPhase = "render"
    /\ Len(unwindPath) > 1
    /\ Len(handlerStack) + Len(providerStack) <= MaxStaleEntries
    /\ unwindPath' = <<PathFiber("HostRoot")>>
    /\ errorReruns' = 0
    \* the handlers left on the stack are fibers of the pass given up: a
    \* fiber at depth d of that pass is written -d
    /\ handlerStack' = [i \in DOMAIN handlerStack |->
                           IF handlerStack[i] > 0 THEN 0 - handlerStack[i]
                           ELSE handlerStack[i]]
    /\ UNCHANGED <<providerStack, unwindPhase, hasCurrent>>
    /\ UNCHANGED <<qvars, svars, lvars, evars, hvars, cvars, tvars, uvars, rvars>>

WNext ==
    \/ BeginWorkOnPath
    \/ BailoutSuspenseOnPath
    \/ CompleteWorkOnPath
    \/ ThrowAndUnwindOnPath
    \/ BeginCapturedBoundary
    \/ RerunUnitOfWork
    \/ PrepareFreshStackOnPath
    \/ RestartInterruptedPass

\* the depth of the nearest Suspense boundary on the path that has not
\* captured, Null when there is none
NearestBoundary(path) ==
    LET boundaries == {i \in DOMAIN path : /\ path[i].tag = "SuspenseComponent"
                                           /\ "DidCapture" \notin path[i].flags}
    IN  IF boundaries = {} THEN Null
        ELSE CHOOSE i \in boundaries : \A j \in boundaries : j <= i

\* C30: when a unit of work has thrown the thenable, the unwind stops at
\* the nearest Suspense boundary above the throwing fiber that has not
\* captured: that boundary gets DidCapture and becomes workInProgress, and
\* the pass goes on with its beginWork, which renders the fallback; when no
\* such boundary is on the way to the root the pass ends as did not
\* complete.
C30_UnwindStopsAtNearestBoundary ==
    [][/\ unwindPhase = "thrown" =>
            LET boundary == NearestBoundary(unwindPath)
            IN  IF boundary # Null
                THEN /\ unwindPhase' = "capture"
                     /\ Len(unwindPath') = boundary
                     /\ "DidCapture" \in unwindPath'[boundary].flags
                ELSE /\ unwindPhase' = "didNotComplete"
                     /\ unwindPath' = <<>>
       /\ unwindPhase = "capture" =>
            /\ unwindPhase' = "render"
            /\ Len(unwindPath') = Len(unwindPath)
            /\ unwindPath'[Len(unwindPath)].showFallback]_vars

\* the depth of the nearest Suspense on the path, Null when there is none
EnclosingBoundary(path) ==
    LET boundaries == {i \in DOMAIN path : path[i].tag = "SuspenseComponent"}
    IN  IF boundaries = {} THEN Null
        ELSE CHOOSE i \in boundaries : \A j \in boundaries : j <= i

\* C31: wherever a component can throw the thenable (while the pass renders
\* below workInProgress, and when a component has thrown), the top of the
\* stack of suspense handlers is the nearest Suspense boundary around it, and
\* the stack is empty when there is none; it is empty when a pass starts.
C31_HandlerIsNearestBoundary ==
    unwindPhase \in {"render", "thrown"} =>
        getSuspenseHandler(handlerStack) = EnclosingBoundary(unwindPath)

\* C33: when a unit of work has thrown a value that is not the
\* SuspenseException, the pass unwinds as it does for the SuspenseException:
\* a boundary captures or the pass ends as did not complete, and the unit
\* that threw is not run again.
C33_ErrorUnwinds ==
    [][unwindPhase = "threwError" =>
          /\ unwindPhase' \in {"capture", "didNotComplete"}
          /\ errorReruns' = 0]_vars

\* the value of the nearest ContextProvider on the path, the default value
\* when there is none
EnclosingProviderValue(path) ==
    LET providers == {i \in DOMAIN path : path[i].tag = "ContextProvider"}
    IN  IF providers = {} THEN DefaultValue
        ELSE path[CHOOSE i \in providers : \A j \in providers : j <= i].value

\* C39: wherever a component can read the context (while the pass renders
\* below workInProgress, and when a component has thrown), the stack holds
\* the values of the providers on the path from the HostRoot to
\* workInProgress and no other, so that the value read is the value of the
\* nearest enclosing provider, or the default when there is none.
C39_ReadsNearestProvider ==
    unwindPhase \in {"render", "thrown", "threwError"} =>
        /\ Len(providerStack) =
              Cardinality({i \in DOMAIN unwindPath :
                              unwindPath[i].tag = "ContextProvider"})
        /\ readContext(providerStack) = EnclosingProviderValue(unwindPath)

\* ------------------------------------------------------------------------
\* The specifications.  Each leaves the variables of the others at their
\* initial value.
\* ------------------------------------------------------------------------
\* SpecQueue starts from any mounted state, the others hold it at one
\* The variables of SpecHooks and of SpecClone in the specifications that
\* leave them alone
HIdle == HInit /\ hookChain = <<0>>

CIdle ==
    /\ CInit
    /\ Len(childList) = 1
    /\ fibers[CurrentChild(1)].alternate = Null
    /\ fibers[CurrentChild(1)].subtreeFlags = FiberNoFlags

NInit == HIdle /\ CIdle /\ TIdle /\ UIdle /\ WIdle /\ RInit

InitQueue == QInit /\ SInit /\ LInit /\ EInit /\ NInit

Init == InitQueue /\ mountState = 0

SpecQueue == InitQueue /\ [][QNext]_vars

\* SpecQueue with one more call of setState
SpecEager == InitQueue /\ [][QNextEager]_vars

SpecSched == Init /\ [][SNext]_vars

\* what the host does by itself: it runs the microtasks and the tasks of
\* the scheduler, and a function that has been called runs to its end
SHostNext ==
    \/ RunMicroTask
    \/ FlushSyncCallback
    \/ FlushSyncDone
    \/ CommitMutation
    \/ CommitSetCurrent
    \/ CommitLayout
    \/ CommitFinish
    \/ RunPassiveTask
    \/ RunRenderTask
    \/ ConcurrentWork

\* SHostNext is enabled: a function is running, or a microtask or a task of
\* the scheduler is queued
HostBusy == stack # <<>> \/ microTasks > 0 \/ taskQueue # {}

\* The steps of SHostNext, told from the calls of setState in an event and
\* from the pings by what they do to the stack and to the queues of the
\* host: those two are taken between two functions and neither run a
\* microtask nor take a task of the passive effects.
HostStep ==
    \/ stack # <<>>
    \/ stack' # <<>>
    \/ microTasks' < microTasks
    \/ \E t \in taskQueue \ taskQueue' : t.kind = "passive"

\* a call of performConcurrentWorkOnRoot that does not leave the pass
\* yielded: the work loop reaches the end of the tree
ConcurrentWorkEnds ==
    /\ stack # <<>>
    /\ Head(stack).op = "concurrent"
    /\ workInProgressRootExitStatus' # RootInComplete

\* ConcurrentWorkEnds is enabled: performConcurrentWorkOnRoot is about to
\* call renderRoot, or no pass is yielded
PassCanEnd ==
    /\ stack # <<>>
    /\ Head(stack).op = "concurrent"
    /\ \/ workInProgressRootExitStatus # RootInComplete
       \/ /\ ~(Head(stack).didFlush
                /\ fiberRootNode.callbackNode # Head(stack).curCallback)
          /\ getNextLane(fiberRootNode) # NoLane

\* HostStep and ConcurrentWorkEnds are the steps they are said to be
HostStepIsSHostNext ==
    [][/\ HostStep <=> SHostNext
       /\ ConcurrentWorkEnds <=>
              (ConcurrentWork /\ workInProgressRootExitStatus' # RootInComplete)]_vars

\* HostBusy and PassCanEnd are the enabling conditions of the two
HostBusyIsEnabled ==
    /\ HostBusy <=> ENABLED <<SHostNext>>_vars
    /\ PassCanEnd <=>
          ENABLED <<ConcurrentWork /\ workInProgressRootExitStatus' # RootInComplete>>_vars

\* SpecSched where the host keeps running what is queued (weak fairness of
\* SHostNext) and the time slices are long enough for the work loop to reach
\* the end of the tree (strong fairness of ConcurrentWorkEnds).
SpecSchedFair ==
    /\ SpecSched
    /\ ([]<>(~HostBusy) \/ []<><<HostStep>>_vars)
    /\ (<>[](~PassCanEnd) \/ []<><<ConcurrentWorkEnds>>_vars)

InitMounted == QInit /\ SInitMounted /\ LInit /\ EInit /\ NInit /\ mountState = 0
SpecTransition == InitMounted /\ [][TNext]_vars
SpecList == Init /\ [][LNext]_vars

SpecEffect == Init /\ [][ENext]_vars

InitHooks ==
    /\ QInit /\ SInit /\ LInit /\ EInit /\ HInit /\ CIdle /\ TIdle /\ UIdle /\ WIdle /\ RInit
    /\ mountState = 0
SpecHooks == InitHooks /\ [][HNext]_vars

InitClone ==
    /\ QInit /\ SInit /\ LInit /\ EInit /\ HIdle /\ CInit /\ TIdle /\ UIdle /\ WIdle /\ RInit
    /\ mountState = 0
SpecClone == InitClone /\ [][CNext]_vars

\* SpecTree keeps its fibers in the variable fibers
InitTree ==
    /\ QInit /\ SInit /\ LInit /\ EInit /\ HIdle /\ UIdle /\ WIdle /\ RInit /\ mountState = 0
    /\ TInit
    /\ cloneCurrentChild = Null
    /\ cloneNewChild = Null
    /\ clonePc = "done"
    /\ childList = <<>>
    /\ currentAtStart = fibers
SpecTree == InitTree /\ [][TreeNext]_vars

\* SpecSuspense keeps its fibers in the variable fibers
InitSuspense ==
    /\ QInit /\ SInit /\ LInit /\ EInit /\ HIdle /\ TIdle /\ WIdle /\ RInit /\ mountState = 0
    /\ UInit
    /\ cloneCurrentChild = Null
    /\ cloneNewChild = Null
    /\ clonePc = "done"
    /\ childList = <<>>
    /\ currentAtStart = <<>>
SpecSuspense == InitSuspense /\ [][UNext]_vars

InitUnwind ==
    /\ QInit /\ SInit /\ LInit /\ EInit /\ HIdle /\ CIdle /\ TIdle /\ UIdle
    /\ RInit
    /\ mountState = 0
    /\ WInit
SpecUnwind == InitUnwind /\ [][WNext]_vars

SpecRef == Init /\ [][RNext]_vars
====
